---- MODULE Spec2Model ----
(***************************************************************************)
(* Calorie tracker client (src/unnamed/part_002): the in-memory state      *)
(* (allLogs, userTDEE, userGoal), the Firestore documents it reads and     *)
(* writes, the asynchronous loadData calls in flight, and the home screen  *)
(* as renderHome leaves it in the DOM.                                     *)
(*                                                                         *)
(* Numbers: calories and TDEE are integers (validateAndNormalizeResult and *)
(* save-profile both Math.round what they store).  Quotients that the code *)
(* computes in floating point (progress, angles) are exact rationals here, *)
(* a record [n, d] in lowest terms with d > 0.                             *)
(*                                                                         *)
(* Spec is the session on the home screen.  SpecStats runs the smart stats *)
(* over dated entries, SpecSettings fills the profile and goal forms in    *)
(* every way their handlers tell apart, SpecEntry follows the status line, *)
(* the input box and failing store calls, and SpecLoads lets loadData      *)
(* calls overlap.  SpecDelete follows the checkboxes and deleteSelected,   *)
(* SpecDay the totals of a day over a store that holds earlier days,       *)
(* SpecFunction the estimateCalories Cloud Function, SpecSession two       *)
(* accounts on one page, SpecSignIn the sign-in chain with failing         *)
(* fetches under fairness, SpecCache the estimation cache, SpecDays the    *)
(* days estimate of the goals tab and SpecReset the password-reset form.   *)
(***************************************************************************)
EXTENDS Integers, FiniteSets, Sequences, Bags, TLC

----------------------------------------------------------------------------
(* Bounds of the model *)

\* entries ever appended to the logs collection
MaxLogs == 1
\* loadData calls in flight at the same time
MaxInFlight == 1

----------------------------------------------------------------------------
(* Inputs *)

\* calorie values the estimation service may answer with
CalValues == {-100, 1500, 2200}

\* "type" strings the estimation service may answer with
RespTypes == {"meal", "exercise", "snack"}

\* a macro field of an answer: nan = parseFloat gives NaN (missing or
\* non-numeric), else v is the value in hundredths of a gram
NoMacro == [nan |-> TRUE, v |-> 0]
Grams100(v) == [nan |-> FALSE, v |-> v]

\* parsed answers of the estimation service: nan = parseFloat(cals) is NaN
\* (missing or non-numeric calorie field), else the value is cals +
\* tenths/10 with cals its integer part (floor)
Responses ==
    { [type |-> t, nan |-> FALSE, cals |-> c, tenths |-> 0,
       pro |-> Grams100(1234), fib |-> NoMacro, sug |-> Grams100(-50),
       fat |-> Grams100(0)] : t \in RespTypes, c \in CalValues }
        \cup { [type |-> "meal", nan |-> TRUE, cals |-> 0, tenths |-> 0,
                 pro |-> NoMacro, fib |-> NoMacro, sug |-> NoMacro,
                 fat |-> NoMacro] }

\* profile forms the user may submit: weight (lb), height (in), age,
\* gender, activity multiplier in thousandths.  0 stands for an empty,
\* non-numeric or zero field (parseFloat/parseInt give NaN or 0: both falsy).
ProfileForms ==
    { [w |-> 150, h |-> 70, a |-> 26, g |-> "male",   m |-> 1200],
      [w |-> 150, h |-> 0,  a |-> 26, g |-> "male",   m |-> 1200] }

\* goal forms the user may submit: target weight and slider value
GoalForms ==
    { [target |-> 140, deficit |-> 750],
      [target |-> 160, deficit |-> 750],
      [target |-> 140, deficit |-> 0] }

\* positions of the deficit slider
GoalValues == {250, 500, 750, 1000, 1500}

----------------------------------------------------------------------------
(* Exact rationals *)

Abs(x) == IF x < 0 THEN -x ELSE x

RECURSIVE GCD(_, _)
GCD(a, b) == IF b = 0 THEN a ELSE GCD(b, a % b)

\* n/d in lowest terms, d > 0
Rat(n, d) ==
    LET s == IF d < 0 THEN -1 ELSE 1
        g == GCD(Abs(n), Abs(d))
    IN  [n |-> (s * n) \div g, d |-> (s * d) \div g]

RatInt(k) == [n |-> k, d |-> 1]
RatSub(x, y) == Rat(x.n * y.d - y.n * x.d, x.d * y.d)
RatMul(x, y) == Rat(x.n * y.n, x.d * y.d)
RatLess(x, y) == x.n * y.d < y.n * x.d
RatLeq(x, y) == x.n * y.d <= y.n * x.d
RatMin(x, y) == IF RatLess(y, x) THEN y ELSE x

----------------------------------------------------------------------------
(* DOM values: <<>> is what the page's markup holds before any script      *)
(* writes the element; <<v>> is a value a script wrote.                    *)

Html == <<>>
W(v) == <<v>>

----------------------------------------------------------------------------
(* Pure functions of the client *)

\* Math.round(Math.max(0, parseFloat(x) || 0) * 10) / 10, in tenths of a gram
NormMacro(x) == IF x.nan \/ x.v <= 0 THEN 0 ELSE (x.v + 5) \div 10

\* Math.round(cals) for cals >= 0
RoundCals(parsed) == parsed.cals + (IF parsed.tenths >= 5 THEN 1 ELSE 0)

\* what validateAndNormalizeResult does where it throws
Rejected ==
    [ok |-> FALSE, type |-> "meal", cals |-> 0,
     pro |-> 0, fib |-> 0, sug |-> 0, fat |-> 0]

\* validateAndNormalizeResult without the "cals < 0" test of line 170
validateAcceptingNegative(parsed) ==
    LET type == IF parsed.type = "exercise" THEN "exercise" ELSE "meal"
        ex   == type = "exercise"
    IN  IF parsed.nan
        THEN Rejected
        ELSE [ok |-> TRUE, type |-> type, cals |-> RoundCals(parsed),
              pro |-> IF ex THEN 0 ELSE NormMacro(parsed.pro),
              fib |-> IF ex THEN 0 ELSE NormMacro(parsed.fib),
              sug |-> IF ex THEN 0 ELSE NormMacro(parsed.sug),
              fat |-> IF ex THEN 0 ELSE NormMacro(parsed.fat)]

\* validateAndNormalizeResult without lines 178-183 (macros of an exercise)
validateKeepingExerciseMacros(parsed) ==
    LET type == IF parsed.type = "exercise" THEN "exercise" ELSE "meal"
    IN  IF parsed.nan \/ parsed.cals < 0
        THEN Rejected
        ELSE [ok |-> TRUE, type |-> type, cals |-> RoundCals(parsed),
              pro |-> NormMacro(parsed.pro), fib |-> NormMacro(parsed.fib),
              sug |-> NormMacro(parsed.sug), fat |-> NormMacro(parsed.fat)]

\* validateAndNormalizeResult: the entry fields kept from a parsed answer
\* (macros in tenths of a gram), or ok = FALSE where the code throws
\* "Invalid calorie value in AI response"
validateAndNormalizeResult(parsed) ==
    LET type == IF parsed.type = "exercise" THEN "exercise" ELSE "meal"
        ex   == type = "exercise"
    IN  IF parsed.nan \/ parsed.cals < 0
        THEN Rejected
        ELSE [ok |-> TRUE, type |-> type, cals |-> RoundCals(parsed),
              pro |-> IF ex THEN 0 ELSE NormMacro(parsed.pro),
              fib |-> IF ex THEN 0 ELSE NormMacro(parsed.fib),
              sug |-> IF ex THEN 0 ELSE NormMacro(parsed.sug),
              fat |-> IF ex THEN 0 ELSE NormMacro(parsed.fat)]

\* Math.floor in place of Math.round
ComputeTDEETruncating(f) ==
    LET bmr5 == f.w * 453592 + f.h * 1587500 - f.a * 500000
                + (IF f.g = "male" THEN 500000 ELSE -16100000)
        q == bmr5 \div 100000
        r == bmr5 % 100000
    IN  (q * f.m + (r * f.m) \div 100000) \div 1000

\* Math.round(bmr / activityMultiplier)
ComputeTDEEDividing(f) ==
    LET bmr5 == f.w * 453592 + f.h * 1587500 - f.a * 500000
                + (IF f.g = "male" THEN 500000 ELSE -16100000)
    IN  (2 * bmr5 + 100 * f.m) \div (200 * f.m)

\* Math.round(bmr * activityMultiplier) of the save-profile handler, with
\* bmr in units of 10^-5 kcal so that 0.453592 and 2.54 stay exact:
\* bmr = 10*kg + 6.25*cm - 5*a (+5 | -161), kg = w*0.453592, cm = h*2.54
ComputeTDEE(f) ==
    LET bmr5 == f.w * 453592 + f.h * 1587500 - f.a * 500000
                + (IF f.g = "male" THEN 500000 ELSE -16100000)
        q == bmr5 \div 100000
        r == bmr5 % 100000
    IN  (q * f.m + (r * f.m + 50000000) \div 100000) \div 1000

\* t.in / t.out of renderHome: the forEach over today's entries
RECURSIVE SumCals(_)
SumCals(S) ==
    IF S = {} THEN 0
    ELSE LET e == CHOOSE x \in S : TRUE IN e.cals + SumCals(S \ {e})

\* allLogs.filter(l => l.date.toLocaleDateString() === today): an entry's date
\* is kept relative to the current local day, "today" or "earlier"
TodaysLogs(logs) == { l \in logs : l.day = "today" }

\* the totals over the entries of every day
TotalsOfEveryDay(logs) ==
    [in  |-> SumCals({ l \in logs : l.type = "meal" }),
     out |-> SumCals({ l \in logs : l.type # "meal" })]

\* lines 234-239: meals add to t.in, everything else to t.out
Totals(logs) ==
    [in  |-> SumCals({ l \in TodaysLogs(logs) : l.type = "meal" }),
     out |-> SumCals({ l \in TodaysLogs(logs) : l.type # "meal" })]

\* x.toFixed(2) for x = k/3500, k >= 0, in hundredths
ToFixed2Of3500(k) == (200 * k + 3500) \div 7000

Max(a, b) == IF a > b THEN a ELSE b

----------------------------------------------------------------------------
(* renderHome *)

\* the elements renderHome writes, as the page's markup leaves them
DomInit ==
    [ logList |-> {},
      dIn |-> Html, dOut |-> Html,
      fatLabel |-> Html, fatValue |-> Html, fatValueColor |-> Html,
      fatCardBackground |-> Html, fatCardBorder |-> Html,
      calorieProgressOffset |-> Html, calorieProgressStroke |-> Html,
      deficitNumber |-> Html, deficitLabel |-> Html, deficitNumberColor |-> Html,
      goalLabelDisplay |-> Html, goalValue |-> Html,
      remainingLabelDisplay |-> Html, remainingValue |-> Html,
      remainingValueColor |-> Html,
      caloriesRemaining |-> Html, goalDisplay |-> Html,
      goalLine |-> Html, goalLineOpacity |-> Html,
      yellowOpacity |-> Html, overOpacity |-> Html,
      yellowDasharray |-> Html, yellowOffset |-> Html,
      progressCircleOffset |-> Html, progressCircleStroke |-> Html,
      progressNumber |-> Html, progressNumberColor |-> Html,
      progressLabel |-> Html,
      warningDisplay |-> Html, warningText |-> Html,
      progressContainerDisplay |-> Html ]

\* const tdee = userTDEE || (parseInt(p-tdee-display.innerText) || 0)
\* (markup that no script has written parses to NaN or 0: both give 0)
RenderTdee(mem, display) ==
    IF mem # 0 THEN mem
    ELSE IF display = Html THEN 0 ELSE display[1]

\* const goal = userGoal?.dailyDeficitGoal || 0
RenderGoal(goalObj) ==
    IF goalObj = <<>> THEN 0 ELSE goalObj[1].dailyDeficitGoal

\* the pool without the day's exercise
CaloriePoolWithoutExercise(tdee, out) == tdee

CaloriePool(tdee, out) == tdee + out

\* the subtraction the other way round
DeficitSurplusFlipped(caloriesEaten, caloriePool) == caloriePool - caloriesEaten

DeficitSurplus(caloriesEaten, caloriePool) == caloriesEaten - caloriePool

\* the ratio without Math.min(1, ...)
ConsumptionProgressUnclamped(caloriesEaten, caloriePool) ==
    IF caloriePool > 0 THEN Rat(caloriesEaten, caloriePool) ELSE RatInt(0)

\* progress = caloriePool > 0 ? Math.min(1, caloriesEaten / caloriePool) : 0
ConsumptionProgress(caloriesEaten, caloriePool) ==
    IF caloriePool > 0
    THEN RatMin(RatInt(1), Rat(caloriesEaten, caloriePool))
    ELSE RatInt(0)

\* the offset without the complement
ProgressOffsetNoComplement(progress) == progress

\* offset = circumference * (1 - progress), in units of the circumference
ProgressOffset(progress) == RatSub(RatInt(1), progress)

\* strokeDashoffset = 534.07 of the branch "TDEE not set", in pixels
EmptyOffsetPx == Rat(53407, 100)

\* lines 245-287: the fat burned / gained card
FatCard(dom, tdee, t) ==
    IF tdee > 0
    THEN LET caloriePool    == CaloriePool(tdee, t.out)
             deficitSurplus == DeficitSurplus(t.in, caloriePool)
         IN  IF deficitSurplus < 0
             THEN [dom EXCEPT !.fatLabel = W("Fat Burned"),
                              !.fatValue = W(ToFixed2Of3500(Abs(deficitSurplus))),
                              !.fatValueColor = W("var(--text-dark)"),
                              !.fatCardBackground = W("#f8f9fa"),
                              !.fatCardBorder = W("#edf2f7")]
             ELSE IF deficitSurplus > 0
             THEN [dom EXCEPT !.fatLabel = W("Fat Gained"),
                              !.fatValue = W(ToFixed2Of3500(deficitSurplus)),
                              !.fatValueColor = W("#d63031"),
                              !.fatCardBackground = W("#ffeaea"),
                              !.fatCardBorder = W("#d63031")]
             ELSE [dom EXCEPT !.fatLabel = W("Fat Burned"),
                              !.fatValue = W(0),
                              !.fatValueColor = W("var(--text-dark)"),
                              !.fatCardBackground = W("#f8f9fa"),
                              !.fatCardBorder = W("#edf2f7")]
    ELSE [dom EXCEPT !.fatLabel = W("Fat Burned"), !.fatValue = W(0)]

\* lines 321-361: goal label and calories remaining under the wheel
GoalLabel(dom, goal, caloriePool, caloriesEaten, isSurplus) ==
    IF goal > 0 /\ caloriePool > 0
    THEN LET goalCalories      == caloriePool - goal
             caloriesRemaining == goalCalories - caloriesEaten
             d1 == [dom EXCEPT !.goalValue = W(-goal),
                               !.goalLabelDisplay = W("block")]
         IN  IF caloriesRemaining > 0
             THEN [d1 EXCEPT !.remainingValue = W(caloriesRemaining),
                             !.remainingLabelDisplay = W("block"),
                             !.remainingValueColor = W("var(--text-dark)")]
             ELSE IF caloriesRemaining <= 0 /\ ~isSurplus
             THEN [d1 EXCEPT !.remainingValue = W(0),
                             !.remainingLabelDisplay = W("block"),
                             !.remainingValueColor = W("#00b894")]
             ELSE [d1 EXCEPT !.remainingLabelDisplay = W("none")]
    ELSE [dom EXCEPT !.goalLabelDisplay = W("none"),
                     !.remainingLabelDisplay = W("none")]

\* lines 289-374: the calorie consumption progress wheel
CalorieWheel(dom, tdee, t, goal) ==
    IF tdee > 0
    THEN LET caloriePool    == CaloriePool(tdee, t.out)
             caloriesEaten  == t.in
             deficitSurplus == DeficitSurplus(caloriesEaten, caloriePool)
             isSurplus      == deficitSurplus > 0
             progress       == ConsumptionProgress(caloriesEaten, caloriePool)
             d1 == [dom EXCEPT
                      !.calorieProgressOffset =
                          W([unit |-> "circumference", v |-> ProgressOffset(progress)]),
                      !.calorieProgressStroke =
                          W(IF isSurplus THEN "#d63031" ELSE "#00b894"),
                      !.deficitNumber =
                          W([sign |-> IF isSurplus THEN "+" ELSE "",
                             value |-> deficitSurplus]),
                      !.deficitLabel =
                          W(IF isSurplus THEN "calorie surplus" ELSE "calorie deficit"),
                      !.deficitNumberColor =
                          W(IF isSurplus THEN "#d63031" ELSE "var(--text-dark)")]
         IN  GoalLabel(d1, goal, caloriePool, caloriesEaten, isSurplus)
    ELSE [dom EXCEPT
            !.calorieProgressOffset = W([unit |-> "px", v |-> EmptyOffsetPx]),
            !.deficitNumber = W([sign |-> "", value |-> 0]),
            !.deficitLabel = W("Set TDEE in Profile")]

\* the naive mapping goal / maxDeficit * 360, without the complement
GoalAngleDegreesNaive(goal, maxDeficit) ==
    IF maxDeficit = 0
    THEN [finite |-> FALSE, q |-> RatInt(0)]
    ELSE [finite |-> TRUE, q |-> RatMul(Rat(goal, maxDeficit), RatInt(360))]

\* const goalAngleDegrees = (1 - goal / maxDeficit) * 360, for goal > 0.
\* maxDeficit = 0 makes goal / maxDeficit = Infinity and the angle -Infinity
\* (finite = FALSE); the tick's coordinates are then NaN.
GoalAngleDegrees(goal, maxDeficit) ==
    IF maxDeficit = 0
    THEN [finite |-> FALSE, q |-> RatInt(0)]
    ELSE [finite |-> TRUE,
          q |-> RatMul(RatSub(RatInt(1), Rat(goal, maxDeficit)), RatInt(360))]

\* lines 382-526: the deficit goal ring.  The tick mark is kept as its angle
\* and the two radii its end points are drawn at (x = 90 + r*cos, y = 90 +
\* r*sin of (angle - 90) degrees).
\* Line 447 reads netDeficit, and line 448 actualSurplus: neither is declared
\* in renderHome nor at the top level of the file, so with goal > 0 the
\* function throws a ReferenceError there and lines 448-529 never run.
GoalRing(dom, tdee, t, goal) ==
    IF goal > 0
    THEN LET caloriesAvailable == tdee + t.out - t.in
             maxDeficit        == tdee + t.out
             goalAngleDegrees  == GoalAngleDegrees(goal, maxDeficit)
         IN  [dom |-> [dom EXCEPT
                         !.caloriesRemaining = W(Max(0, caloriesAvailable)),
                         !.goalDisplay = W(goal),
                         !.goalLine = W([angle |-> goalAngleDegrees,
                                         inner |-> 75, outer |-> 85]),
                         !.goalLineOpacity = W("1"),
                         !.yellowOpacity = W("0"),
                         !.overOpacity = W("0")],
              threw |-> TRUE]
    ELSE [dom |-> [dom EXCEPT !.progressContainerDisplay = W("none")],
          threw |-> FALSE]

\* renderHome: the page after the call, and whether the call threw
RenderHome(dom, logs, mem, display, goalObj) ==
    LET tdee == RenderTdee(mem, display)
        t    == Totals(logs)
        goal == RenderGoal(goalObj)
        d0   == [dom EXCEPT !.logList = { l.id : l \in TodaysLogs(logs) },
                            !.dIn = W(t.in), !.dOut = W(t.out)]
        d1   == FatCard(d0, tdee, t)
        d2   == CalorieWheel(d1, tdee, t, goal)
    IN  GoalRing(d2, tdee, t, goal)

----------------------------------------------------------------------------
(* State *)

VARIABLES
    signedIn,       \* a user is signed in (auth.currentUser)
    chain,          \* sign-in chain: "idle", "profile" (loadProfile awaited),
                    \* "goals" (loadGoals awaited)
    storeLogs,      \* Firestore collection "logs" of the user
    userDoc,        \* Firestore document users/<uid>: <<>> or <<fields>>
    allLogs,        \* let allLogs
    userTDEE,       \* let userTDEE
    userGoal,       \* let userGoal: <<>> (null) or <<object>>
    dom,            \* what renderHome writes
    masterList,     \* ids listed by renderMaster
    pTdeeDisplay,   \* #p-tdee-display
    pWeight,        \* #p-weight
    gCurrentWeight, \* #g-current-weight
    pending,        \* loadData calls whose query is not answered yet
    fetched,        \* bag of query results on their way to loadData
    nextId,         \* entries appended so far
    lastRender,     \* what the last renderHome call computed with
    statsOutput,    \* #stats-output, written by runAdvancedStats
    aiInput,        \* #ai-input
    statusMsg,      \* #status-msg
    statusTimers,   \* setTimeout callbacks armed to clear #status-msg
    loadCap,        \* loadData calls the run lets overlap
    checked,        \* ids of the .entry-checkbox elements that are checked
    away,           \* documents of the account that is not signed in
    fnCall,         \* last call of the estimateCalories Cloud Function
    estimationCache, \* the Map estimationCache
    lastEstimate,   \* what the last estimateWithGemini call did
    gEstimatedDays, \* the goal inputs and #g-estimated-days
    loginView       \* the password-reset form and its messages

vars == <<signedIn, chain, storeLogs, userDoc, allLogs, userTDEE, userGoal,
          dom, masterList, pTdeeDisplay, pWeight, gCurrentWeight, pending,
          fetched, nextId, lastRender, statsOutput, aiInput, statusMsg,
          statusTimers, loadCap, checked, away, fnCall, estimationCache,
          lastEstimate, gEstimatedDays, loginView>>

\* the elements and timers outside the home screen
statsVars == <<statsOutput>>
entryVars == <<aiInput, statusMsg, statusTimers>>
sideVars == <<away, fnCall, estimationCache, lastEstimate, gEstimatedDays,
              loginView>>

\* both lists without a checked box
NoneChecked == [home |-> {}, master |-> {}]

\* the account that is not signed in has no document and no entries
NobodyAway == [doc |-> <<>>, logs |-> {}]

\* the login page as its markup leaves it
LoginInit ==
    [emailReset |-> "", error |-> Html, success |-> Html,
     successDisplay |-> Html, tab |-> Html, timers |-> 0]

\* the goal inputs empty and the estimate box as the markup leaves it
DaysInit == [target |-> 0, deficit |-> 0, days |-> Html, display |-> Html]

\* the state outside the home screen, before any script touched it
InitSide ==
    /\ checked = NoneChecked
    /\ away = NobodyAway
    /\ fnCall = <<>>
    /\ estimationCache = {}
    /\ lastEstimate = <<>>
    /\ gEstimatedDays = DaysInit
    /\ loginView = LoginInit

NoRender ==
    [done |-> FALSE, threw |-> FALSE, tdee |-> 0, goal |-> 0,
     in |-> 0, out |-> 0]

Init ==
    /\ signedIn = FALSE
    /\ chain = "idle"
    /\ storeLogs = {}
    /\ userDoc = <<>>
    /\ allLogs = {}
    /\ userTDEE = 0
    /\ userGoal = <<>>
    /\ dom = DomInit
    /\ masterList = {}
    /\ pTdeeDisplay = Html
    /\ pWeight = 0
    /\ gCurrentWeight = 0
    /\ pending = 0
    /\ fetched = EmptyBag
    /\ nextId = 0
    /\ lastRender = NoRender
    /\ statsOutput = Html
    /\ aiInput = ""
    /\ statusMsg = ""
    /\ statusTimers = 0
    /\ loadCap = MaxInFlight
    /\ InitSide

InFlight == pending + BagCardinality(fetched)

----------------------------------------------------------------------------
(* Store helpers *)

\* fields of users/<uid> the client reads back; 0 is a field that is missing
EmptyDoc ==
    [weight |-> 0, height |-> 0, age |-> 0, gender |-> "", activityLevel |-> 0,
     tdee |-> 0, targetWeight |-> 0, dailyDeficitGoal |-> 0]

DocData == IF userDoc = <<>> THEN EmptyDoc ELSE userDoc[1]

\* loadData(uid) is called: one more query on its way
StartLoad == pending' = pending + 1

----------------------------------------------------------------------------
(* Actions *)

\* onAuthStateChanged(user), user signed in: loadProfile(uid) starts
SignIn ==
    /\ ~signedIn
    /\ signedIn' = TRUE
    /\ chain' = "profile"
    /\ UNCHANGED <<storeLogs, userDoc, allLogs, userTDEE, userGoal, dom,
                   masterList, pTdeeDisplay, pWeight, gCurrentWeight,
                   pending, fetched, nextId, lastRender>>
    /\ UNCHANGED <<statsVars, entryVars, loadCap>>
    /\ UNCHANGED <<checked, sideVars>>

\* loadProfile: getDoc answers; .then() goes on to loadGoals
LoadProfileDone ==
    /\ chain = "profile"
    /\ IF userDoc # <<>>
       THEN /\ userTDEE' = DocData.tdee
            /\ pWeight' = DocData.weight
            /\ pTdeeDisplay' = W(DocData.tdee)
       ELSE UNCHANGED <<userTDEE, pWeight, pTdeeDisplay>>
    /\ chain' = "goals"
    /\ UNCHANGED <<signedIn, storeLogs, userDoc, allLogs, userGoal, dom,
                   masterList, gCurrentWeight, pending, fetched,
                   nextId, lastRender>>
    /\ UNCHANGED <<statsVars, entryVars, loadCap>>
    /\ UNCHANGED <<checked, sideVars>>

\* loadGoals: getDoc answers; the callback then calls loadData(uid)
LoadGoalsDone ==
    /\ chain = "goals"
    /\ InFlight < loadCap
    /\ IF userDoc # <<>>
       THEN /\ userGoal' = W([targetWeight |-> DocData.targetWeight,
                              dailyDeficitGoal |-> DocData.dailyDeficitGoal])
            /\ gCurrentWeight' = pWeight
       ELSE UNCHANGED <<userGoal, gCurrentWeight>>
    /\ chain' = "idle"
    /\ StartLoad
    /\ UNCHANGED <<signedIn, storeLogs, userDoc, allLogs, userTDEE, dom,
                   masterList, pTdeeDisplay, pWeight, fetched,
                   nextId, lastRender>>
    /\ UNCHANGED <<statsVars, entryVars, loadCap>>
    /\ UNCHANGED <<checked, sideVars>>

\* the logs query of a loadData call is answered by the store
Fetch ==
    /\ pending > 0
    /\ pending' = pending - 1
    /\ fetched' = fetched (+) SetToBag({storeLogs})
    /\ UNCHANGED <<signedIn, chain, storeLogs, userDoc, allLogs, userTDEE,
                   userGoal, dom, masterList, pTdeeDisplay, pWeight,
                   gCurrentWeight, nextId, lastRender>>
    /\ UNCHANGED <<statsVars, entryVars, loadCap>>
    /\ UNCHANGED <<checked, sideVars>>

\* loadData resumes after await getDocs: allLogs = ...; renderHome();
\* renderMaster() (not reached when renderHome throws)
LoadDataResolve(snap) ==
    /\ snap \in BagToSet(fetched)
    /\ fetched' = fetched (-) SetToBag({snap})
    /\ allLogs' = snap
    /\ LET r == RenderHome(dom, snap, userTDEE, pTdeeDisplay, userGoal)
           t == Totals(snap)
       IN  /\ dom' = r.dom
           /\ masterList' = IF r.threw THEN masterList
                            ELSE { l.id : l \in snap }
           /\ lastRender' = [done |-> TRUE, threw |-> r.threw,
                             tdee |-> RenderTdee(userTDEE, pTdeeDisplay),
                             goal |-> RenderGoal(userGoal),
                             in |-> t.in, out |-> t.out]
           \* both lists are rebuilt with fresh checkboxes, the master
           \* list only when renderHome returns
           /\ checked' = [home |-> {},
                          master |-> IF r.threw THEN checked.master ELSE {}]
    /\ UNCHANGED <<signedIn, chain, storeLogs, userDoc, userTDEE, userGoal,
                   pTdeeDisplay, pWeight, gCurrentWeight, pending,
                   nextId>>
    /\ UNCHANGED <<statsVars, entryVars, loadCap>>
    /\ UNCHANGED sideVars

\* ai-btn onclick: callGemini answers `resp`; a valid result is appended with
\* addDoc and loadData is called, an invalid one only shows an error.  The
\* status line and the input box, which nothing on the home screen reads,
\* are followed by AiBtnClick below.
AddEntry(resp) ==
    /\ signedIn
    /\ LET result == validateAndNormalizeResult(resp)
       IN  IF result.ok
           THEN /\ nextId < MaxLogs
                /\ InFlight < loadCap
                /\ nextId' = nextId + 1
                /\ storeLogs' = storeLogs \cup
                       {[id |-> nextId + 1, type |-> result.type,
                         cals |-> result.cals, day |-> "today",
                         pro |-> result.pro, fib |-> result.fib,
                         sug |-> result.sug, fat |-> result.fat]}
                /\ StartLoad
           ELSE \* status.innerText = "Error: ..."
                UNCHANGED <<nextId, storeLogs, pending>>
    /\ UNCHANGED <<signedIn, chain, userDoc, allLogs, userTDEE, userGoal, dom,
                   masterList, pTdeeDisplay, pWeight, gCurrentWeight, fetched, lastRender>>
    /\ UNCHANGED <<statsVars, entryVars, loadCap>>
    /\ UNCHANGED <<checked, sideVars>>

\* deleteSelected with the checkboxes of `ids` checked and the confirm
\* dialog accepted: deleteDoc for each, then loadData
DeleteSelected(ids) ==
    /\ signedIn
    /\ ids # {}
    /\ ids \subseteq dom.logList \cup masterList
    /\ InFlight < loadCap
    /\ storeLogs' = { l \in storeLogs : l.id \notin ids }
    /\ StartLoad
    /\ UNCHANGED <<signedIn, chain, userDoc, allLogs, userTDEE, userGoal, dom,
                   masterList, pTdeeDisplay, pWeight, gCurrentWeight,
                   fetched, nextId, lastRender>>
    /\ UNCHANGED <<statsVars, entryVars, loadCap>>
    /\ checked' = NoneChecked
    /\ UNCHANGED sideVars

\* save-profile onclick with the form filled as f
SaveProfile(f) ==
    /\ signedIn
    /\ pWeight' = f.w
    /\ IF f.w = 0 \/ f.h = 0 \/ f.a = 0
       THEN \* alert("Fill all fields")
            UNCHANGED <<userDoc, userTDEE, pTdeeDisplay, gCurrentWeight, pending>>
       ELSE LET tdee == ComputeTDEE(f)
            IN  /\ InFlight < loadCap
                /\ userDoc' = W([DocData EXCEPT
                                    !.weight = f.w, !.height = f.h, !.age = f.a,
                                    !.gender = f.g, !.activityLevel = f.m,
                                    !.tdee = tdee])
                /\ userTDEE' = tdee
                /\ pTdeeDisplay' = W(tdee)
                /\ StartLoad
                /\ gCurrentWeight' = f.w
    /\ UNCHANGED <<signedIn, chain, storeLogs, allLogs, userGoal, dom,
                   masterList, fetched, nextId, lastRender>>
    /\ UNCHANGED <<statsVars, entryVars, loadCap>>
    /\ UNCHANGED <<checked, sideVars>>

\* updateGoalsTab: the goals tab copies the weight typed in the profile tab
OpenGoalsTab ==
    /\ signedIn
    /\ gCurrentWeight' = pWeight
    /\ UNCHANGED <<signedIn, chain, storeLogs, userDoc, allLogs, userTDEE,
                   userGoal, dom, masterList, pTdeeDisplay, pWeight, pending, fetched, nextId, lastRender>>
    /\ UNCHANGED <<statsVars, entryVars, loadCap>>
    /\ UNCHANGED <<checked, sideVars>>

\* the checks of save-goal without "targetWeight >= currentWeight"
SaveGoalAcceptsAnyTarget(f, currentWeight) ==
    /\ currentWeight # 0
    /\ f.target > 0
    /\ f.deficit > 0

\* save-goal goes past its four alerts: !currentWeight, !targetWeight ||
\* targetWeight <= 0, targetWeight >= currentWeight, !dailyDeficit ||
\* dailyDeficit <= 0 (0 stands for an empty field)
SaveGoalAccepts(f, currentWeight) ==
    /\ currentWeight # 0
    /\ f.target > 0
    /\ f.target < currentWeight
    /\ f.deficit > 0

\* save-goal onclick with the form filled as f
SaveGoal(f) ==
    /\ signedIn
    /\ SaveGoalAccepts(f, gCurrentWeight)
    /\ InFlight < loadCap
    /\ userGoal' = W([targetWeight |-> f.target, dailyDeficitGoal |-> f.deficit])
    /\ userDoc' = W([DocData EXCEPT !.targetWeight = f.target,
                                    !.dailyDeficitGoal = f.deficit])
    /\ StartLoad
    /\ UNCHANGED <<signedIn, chain, storeLogs, allLogs, userTDEE, dom,
                   masterList, pTdeeDisplay, pWeight, gCurrentWeight,
                   fetched, nextId, lastRender>>
    /\ UNCHANGED <<statsVars, entryVars, loadCap>>
    /\ UNCHANGED <<checked, sideVars>>

\* midnight passes: every entry logged so far is dated an earlier day, in
\* the store, in memory and in the query results on their way
Aged(logs) == { [l EXCEPT !.day = "earlier"] : l \in logs }

AgedBag(b) ==
    LET olds == { Aged(x) : x \in BagToSet(b) }
    IN  [ y \in olds |->
            BagCardinality([ x \in { z \in BagToSet(b) : Aged(z) = y } |-> b[x] ]) ]

NextDay ==
    /\ storeLogs' = Aged(storeLogs)
    /\ allLogs' = Aged(allLogs)
    /\ fetched' = AgedBag(fetched)
    /\ UNCHANGED <<signedIn, chain, userDoc, userTDEE, userGoal, dom,
                   masterList, pTdeeDisplay, pWeight, gCurrentWeight, pending,
                   nextId, lastRender>>
    /\ UNCHANGED <<statsVars, entryVars, loadCap>>
    /\ UNCHANGED <<checked, sideVars>>

Next ==
    \/ SignIn
    \/ LoadProfileDone
    \/ LoadGoalsDone
    \/ Fetch
    \/ \E snap \in BagToSet(fetched) : LoadDataResolve(snap)
    \/ \E resp \in Responses : AddEntry(resp)
    \/ \E ids \in SUBSET (dom.logList \cup masterList) : DeleteSelected(ids)
    \/ \E f \in ProfileForms : SaveProfile(f)
    \/ OpenGoalsTab
    \/ \E f \in GoalForms : SaveGoal(f)
    \/ NextDay

Spec == Init /\ [][Next]_vars

----------------------------------------------------------------------------
(* Properties of the home screen.  lastRender holds the totals, TDEE and    *)
(* goal the last renderHome call computed with; dom is the page it left.    *)

lr == lastRender
lrPool == lr.tdee + lr.out
lrNet == lr.in - lr.tdee - lr.out

Green == "#00b894"
Red == "#d63031"

\* C1: with a goal G and maxPossibleDeficit = tdee + caloriesOut, 0 < G <
\* maxPossibleDeficit, the goal tick drawn by renderHome is at
\* (1 - G/maxPossibleDeficit) * 360 degrees clockwise from 12 o'clock (225
\* for tdee 2000, no exercise, G 750), and for the same pool a larger goal
\* gives a strictly smaller angle.
GoalMarkerAtComplementAngle ==
    (lr.done /\ 0 < lr.goal /\ lr.goal < lrPool) =>
        /\ dom.goalLineOpacity = W("1")
        /\ dom.goalLine =
             W([angle |-> [finite |-> TRUE,
                           q |-> Rat((lrPool - lr.goal) * 360, lrPool)],
                inner |-> 75, outer |-> 85])
        /\ (lrPool = 2000 /\ lr.goal = 750) =>
               dom.goalLine[1].angle.q = RatInt(225)
        /\ \A G2 \in GoalValues :
               /\ (lr.goal < G2 /\ G2 < lrPool) =>
                      RatLess(GoalAngleDegrees(G2, lrPool).q,
                              dom.goalLine[1].angle.q)
               /\ (0 < G2 /\ G2 < lr.goal) =>
                      RatLess(dom.goalLine[1].angle.q,
                              GoalAngleDegrees(G2, lrPool).q)

\* the spec's scenario: tdee 2000, no exercise, goal 750, tick at 225 degrees
GoalMarkerAt225 ==
    /\ lr.done /\ lr.tdee = 2000 /\ lr.out = 0 /\ lr.goal = 750
    /\ dom.goalLine # Html
    /\ dom.goalLine[1].angle = [finite |-> TRUE, q |-> RatInt(225)]

BelowGoalShowsGreenAndYellow ==
    (lr.done /\ lr.tdee > 0 /\ lr.goal > 0 /\ lr.in <= lrPool
        /\ lrPool - lr.in < lr.goal /\ lr.goal < lrPool) =>
        /\ dom.progressCircleStroke = W(Green)
        /\ dom.progressCircleOffset =
             W([unit |-> "circumference", v |-> Rat(lr.goal, lrPool)])
        /\ dom.yellowOpacity = W("1")

\* C4: not in surplus and deficit >= goal: the goal ring is solid green from
\* 12 o'clock to the current position, with no yellow segment; at deficit =
\* goal the current position is the goal tick's angle.
GoalMetShowsSolidGreen ==
    (lr.done /\ lr.tdee > 0 /\ lr.goal > 0 /\ lr.in <= lrPool
        /\ lrPool - lr.in >= lr.goal) =>
        /\ dom.progressCircleStroke = W(Green)
        /\ dom.progressCircleOffset =
             W([unit |-> "circumference",
                v |-> RatSub(RatInt(1), Rat(lr.in, lrPool))])
        /\ dom.yellowOpacity = W("0")
        /\ (lrPool - lr.in = lr.goal /\ lr.goal < lrPool) =>
               dom.goalLine[1].angle.q = RatMul(Rat(lr.in, lrPool), RatInt(360))

\* C5: raw net negative and no true surplus (such as nothing eaten, no
\* exercise): the goal ring's centre number shows 0.
NegativeNetShowsZero ==
    (lr.done /\ lr.tdee > 0 /\ lr.goal > 0 /\ lr.in <= lrPool /\ lrNet < 0) =>
        dom.progressNumber = W(0)

\* clamp(x, 0, 1) of a rational
Clamp01(x) ==
    IF RatLess(x, RatInt(0)) THEN RatInt(0)
    ELSE IF RatLess(RatInt(1), x) THEN RatInt(1) ELSE x

\* the progress the wheel's stroke offset stands for: offset =
\* circumference * (1 - progress)
ShownProgress == RatSub(RatInt(1), dom.calorieProgressOffset[1].v)

\* C6: with tdee > 0 the wheel's progress is clamp(caloriesIn / caloriePool,
\* 0, 1): it lies in [0, 1] and the stroke offset lies between 0 and the
\* full circumference.
ProgressIsClampedRatio ==
    (lr.done /\ lr.tdee > 0) =>
        /\ dom.calorieProgressOffset[1].unit = "circumference"
        /\ ShownProgress = Clamp01(Rat(lr.in, lrPool))
        /\ RatLeq(RatInt(0), ShownProgress) /\ RatLeq(ShownProgress, RatInt(1))
        /\ RatLeq(RatInt(0), dom.calorieProgressOffset[1].v)
        /\ RatLeq(dom.calorieProgressOffset[1].v, RatInt(1))

\* a render above the pool: the ratio 2200/2000 is clamped to 1
ProgressClampedAtOne ==
    /\ lr.done /\ lr.tdee > 0 /\ lr.in > lrPool
    /\ dom.calorieProgressOffset = W([unit |-> "circumference", v |-> RatInt(0)])

\* C7 as stated: with tdee > 0, deficitSurplus = (consumptionProgress - 1) *
\* caloriePool for every caloriesIn, also above caloriePool.
ComplementIdentityEverywhere ==
    (lr.done /\ lr.tdee > 0) =>
        RatMul(RatSub(ShownProgress, RatInt(1)), RatInt(lrPool))
            = RatInt(dom.deficitNumber[1].value)

\* C7 amended: with tdee > 0 and caloriesIn <= caloriePool, deficitSurplus =
\* (consumptionProgress - 1) * caloriePool; above the pool the progress is
\* clamped to 1 while deficitSurplus = caloriesIn - caloriePool > 0.
ComplementIdentityUpToPool ==
    (lr.done /\ lr.tdee > 0) =>
        /\ lr.in <= lrPool =>
               RatMul(RatSub(ShownProgress, RatInt(1)), RatInt(lrPool))
                   = RatInt(dom.deficitNumber[1].value)
        /\ lr.in > lrPool =>
               /\ ShownProgress = RatInt(1)
               /\ dom.deficitNumber[1].value = lr.in - lrPool
               /\ dom.deficitNumber[1].value > 0

\* a render strictly inside the pool: 1500 eaten of 2000
PartWayThroughPool ==
    /\ lr.done /\ lr.tdee > 0 /\ 0 < lr.in /\ lr.in < lrPool
    /\ dom.deficitNumber # Html
    /\ dom.deficitNumber[1].value < 0

\* C8: with tdee > 0 the daily net is caloriesIn - tdee - caloriesOut, and
\* the fat card shows net / 3500 to two decimals: "Fat Burned" with the
\* absolute value when the net is negative, "Fat Gained" when positive.
NearestHundredthOf3500(h, k) ==
    /\ h >= 0
    /\ 2 * Abs(h * 3500 - 100 * k) <= 3500

DailyNetAndFatChange ==
    (lr.done /\ lr.tdee > 0) =>
        /\ dom.deficitNumber[1].value = lr.in - lr.tdee - lr.out
        /\ lrNet < 0 =>
               /\ dom.fatLabel = W("Fat Burned")
               /\ NearestHundredthOf3500(dom.fatValue[1], -lrNet)
        /\ lrNet > 0 =>
               /\ dom.fatLabel = W("Fat Gained")
               /\ NearestHundredthOf3500(dom.fatValue[1], lrNet)

\* a day with exercise and a deficit: the pool is above the TDEE
DeficitDayWithExercise ==
    /\ lr.done /\ lr.tdee > 0 /\ lr.out > 0 /\ lrNet < 0
    /\ dom.fatLabel = W("Fat Burned")
    /\ dom.fatValue # Html /\ dom.fatValue[1] > 0

\* C9: after any appends, deletes and reloads, the day's caloriesIn and
\* caloriesOut that renderHome computes are >= 0 and caloriePool >= tdee.
TotalsNonNegative ==
    /\ \A l \in storeLogs \cup allLogs : l.cals >= 0
    /\ lr.done =>
        /\ dom.dIn[1] >= 0 /\ dom.dOut[1] >= 0
        /\ dom.dIn[1] = lr.in /\ dom.dOut[1] = lr.out
        /\ CaloriePool(lr.tdee, dom.dOut[1]) >= lr.tdee

\* an appended entry has been loaded and rendered
RenderedAfterAppend ==
    /\ lr.done /\ nextId > 0 /\ allLogs # {}
    /\ dom.dIn # Html /\ dom.dIn[1] + dom.dOut[1] > 0

\* C10: after renderHome has run with tdee <= 0 no goal marker is computed
\* or shown, even with a daily deficit goal stored.
NoGoalMarkerWithoutTdee ==
    (lr.done /\ lr.tdee <= 0) =>
        /\ dom.goalLine = Html
        /\ dom.goalLineOpacity # W("1")

----------------------------------------------------------------------------
(* Smart stats: runAdvancedStats(days).  Here an entry also carries its     *)
(* date as the distance from now: date.ago calendar days back, date.late    *)
(* when its time of day is not before the present time of day.             *)

\* entries in memory when the stats are run
MaxStatsLogs == 2

\* runAdvancedStats(3) and the btn-7 window
StatsWindows == {3, 7}

StatsDates ==
    { [ago |-> a, late |-> b] : a \in {0, 1, 3, 7}, b \in BOOLEAN }
        \ { [ago |-> 0, late |-> TRUE] }

StatsEntries ==
    { [type |-> t, cals |-> c, date |-> d] :
          t \in {"meal", "exercise"}, c \in {1500, 2200}, d \in StatsDates }

\* l.date >= cutoff, cutoff = now moved back `days` calendar days
InWindow(l, days) ==
    l.date.ago < days \/ (l.date.ago = days /\ l.date.late)

\* x.toFixed(2) for x = k/3500, in hundredths
ToFixed2Signed(k) ==
    IF k >= 0 THEN ToFixed2Of3500(k) ELSE -ToFixed2Of3500(-k)

\* Math.round(n / d), n >= 0, d > 0
RoundDiv(n, d) == (2 * n + d) \div (2 * d)

\* new Set(...).size || 1 replaced by the number of entries in the window
UniqueDaysCountingEntries(filtered) ==
    IF filtered = {} THEN 1 ELSE Cardinality(filtered)

\* new Set(filtered.map(l => l.date.toDateString())).size || 1
UniqueDays(filtered) ==
    LET size == Cardinality({ l.date.ago : l \in filtered })
    IN  IF size = 0 THEN 1 ELSE size

\* what runAdvancedStats(days) writes into #stats-output
AdvancedStats(logs, days, display) ==
    LET filtered   == { l \in logs : InWindow(l, days) }
        tdee       == IF display = Html THEN 0 ELSE display[1]
        uniqueDays == UniqueDays(filtered)
        cIn        == SumCals({ l \in filtered : l.type = "meal" })
        cOut       == SumCals({ l \in filtered : l.type # "meal" })
        deficit    == (cOut + (tdee * uniqueDays)) - cIn
    IN  [days |-> days, uniqueDays |-> uniqueDays, deficit |-> deficit,
         lbs |-> ToFixed2Signed(deficit),
         avgCalories |-> RoundDiv(cIn, uniqueDays), totalBurn |-> cOut]

\* btn-7 / btn-30 onclick
RunAdvancedStats(days) ==
    /\ signedIn
    /\ statsOutput' = W(AdvancedStats(allLogs, days, pTdeeDisplay))
    /\ UNCHANGED <<signedIn, chain, storeLogs, userDoc, allLogs, userTDEE,
                   userGoal, dom, masterList, pTdeeDisplay, pWeight,
                   gCurrentWeight, pending, fetched, nextId, lastRender>>
    /\ UNCHANGED <<entryVars, loadCap>>
    /\ UNCHANGED <<checked, sideVars>>

\* a signed-in session after its load: up to MaxStatsLogs entries of the
\* last days in the store and in memory, and either no profile or the
\* profile of ProfileForms saved
InitStats ==
    \E n \in 0..MaxStatsLogs : \E f \in [1..n -> StatsEntries] :
    \E tdee \in {0, 2000} :
        LET logs == { [id |-> i, type |-> f[i].type, cals |-> f[i].cals,
                       day |-> IF f[i].date.ago = 0 THEN "today" ELSE "earlier",
                       date |-> f[i].date] : i \in 1..n }
            disp == IF tdee = 0 THEN Html ELSE W(tdee)
            r    == RenderHome(DomInit, logs, tdee, disp, <<>>)
            t    == Totals(logs)
        IN  /\ signedIn = TRUE
            /\ chain = "idle"
            /\ storeLogs = logs
            /\ userDoc = IF tdee = 0 THEN <<>>
                         ELSE W([EmptyDoc EXCEPT !.weight = 150, !.tdee = tdee])
            /\ allLogs = logs
            /\ userTDEE = tdee
            /\ userGoal = <<>>
            /\ dom = r.dom
            /\ masterList = { l.id : l \in logs }
            /\ pTdeeDisplay = disp
            /\ pWeight = IF tdee = 0 THEN 0 ELSE 150
            /\ gCurrentWeight = pWeight
            /\ pending = 0
            /\ fetched = EmptyBag
            /\ nextId = n
            /\ lastRender = [done |-> TRUE, threw |-> r.threw, tdee |-> tdee,
                             goal |-> 0, in |-> t.in, out |-> t.out]
            /\ statsOutput = Html
            /\ aiInput = ""
            /\ statusMsg = ""
            /\ statusTimers = 0
            /\ loadCap = MaxInFlight
            /\ InitSide

NextStats == \E days \in StatsWindows : RunAdvancedStats(days)

SpecStats == InitStats /\ [][NextStats]_vars

so == statsOutput[1]

\* the entries of allLogs dated inside the trailing window of so.days days
SoWindow == { l \in allLogs : InWindow(l, so.days) }

\* the calendar days, counted back from today, with an entry in the window
SoActiveDays == { d \in 0..so.days : \E l \in SoWindow : l.date.ago = d }

\* C11: after runAdvancedStats(windowDays), the active-day count shown is
\* the number of distinct calendar days with at least one entry inside the
\* window, or 1 when there is none; the deficit is caloriesOut + tdee *
\* activeDays - caloriesIn over the window's entries, and the fat loss
\* shown is that deficit over 3500 to the nearest hundredth.
StatsCountActiveDays ==
    statsOutput # Html =>
        LET activeDays == IF SoActiveDays = {} THEN 1
                          ELSE Cardinality(SoActiveDays)
            tdee == IF pTdeeDisplay = Html THEN 0 ELSE pTdeeDisplay[1]
            total == SumCals({ l \in SoWindow : l.type = "exercise" })
                       + tdee * activeDays
                       - SumCals({ l \in SoWindow : l.type = "meal" })
        IN  /\ so.uniqueDays = activeDays
            /\ so.deficit = total
            /\ Abs(so.lbs * 35 - total) * 2 <= 35

\* entries on 2 of the 3 days of a 3-day window
TwoOfThreeDaysActive ==
    /\ statsOutput # Html
    /\ so.days = 3
    /\ Cardinality(SoWindow) = 2
    /\ so.uniqueDays = 2

\* a window with no entry in it: the count is floored at 1
EmptyWindowCountsOneDay ==
    /\ statsOutput # Html
    /\ SoWindow = {}
    /\ allLogs # {}
    /\ so.uniqueDays = 1

----------------------------------------------------------------------------
(* Profile and goal forms: the session without log entries, with the forms *)
(* filled in every way the handlers tell apart.                            *)

\* weight (lb), height (in), age typed into the profile form
ProfileBodies ==
    { <<150, 70, 26, "male">>, <<10, 10, 60, "female">>,
      <<0, 70, 26, "male">>, <<150, 0, 26, "male">>, <<150, 70, 0, "male">>,
      <<-150, 70, 26, "male">> }

\* options of #p-activity, in thousandths
Multipliers == {1200, 1550}

ProfileInputs ==
    { [w |-> b[1], h |-> b[2], a |-> b[3], g |-> b[4], m |-> m] :
          b \in ProfileBodies, m \in Multipliers }

GoalInputs ==
    { [target |-> 140, deficit |-> 750],
      [target |-> 150, deficit |-> 750], [target |-> 160, deficit |-> 750],
      [target |-> 0,   deficit |-> 750], [target |-> -140, deficit |-> 750],
      [target |-> 140, deficit |-> 0],   [target |-> 140, deficit |-> -250] }

NextSettings ==
    \/ SignIn
    \/ LoadProfileDone
    \/ LoadGoalsDone
    \/ Fetch
    \/ \E snap \in BagToSet(fetched) : LoadDataResolve(snap)
    \/ \E f \in ProfileInputs : SaveProfile(f)
    \/ OpenGoalsTab
    \/ \E f \in GoalInputs : SaveGoal(f)

SpecSettings == Init /\ [][NextSettings]_vars

\* a profile has been saved into users/<uid>
ProfileStored == userDoc # <<>> /\ DocData.weight # 0

\* the stored profile as the form that was saved
StoredForm ==
    [w |-> DocData.weight, h |-> DocData.height, a |-> DocData.age,
     g |-> DocData.gender, m |-> DocData.activityLevel]

\* bmr = 10*kg + 6.25*cm - 5*age + (5 | -161) in units of 10^-5 kcal
Bmr5(f) ==
    10 * 45359 * f.w + 2 * f.w + 625 * 254 * 10 * f.h - 5 * 100000 * f.a
        + (IF f.g = "male" THEN 5 ELSE -161) * 100000

\* bmr * activityMultiplier, exactly: whole kcal and the rest in 10^-8 kcal
ExactTDEE(f) ==
    LET q == Bmr5(f) \div 100000
        r == Bmr5(f) % 100000
        a == q * f.m + (r * f.m) \div 100000
    IN  [whole |-> a \div 1000,
         rest  |-> ((a % 1000) * 100000) + ((r * f.m) % 100000)]

\* C12 as stated: the TDEE that save-profile stores and later computations
\* use is bmr * activityMultiplier itself, not a rounded value.
StoredTdeeIsUnrounded ==
    ProfileStored =>
        /\ ExactTDEE(StoredForm).rest = 0
        /\ DocData.tdee = ExactTDEE(StoredForm).whole
        /\ userTDEE = DocData.tdee

\* C12 amended: the TDEE that save-profile stores, keeps in memory and shows
\* is bmr * activityMultiplier rounded to the nearest integer (halves up).
StoredTdeeIsRounded ==
    ProfileStored =>
        LET x == ExactTDEE(StoredForm)
        IN  /\ DocData.tdee = x.whole + (IF x.rest >= 50000000 THEN 1 ELSE 0)
            /\ userTDEE = DocData.tdee
            /\ pTdeeDisplay = W(DocData.tdee)

\* 150 lb, 70 in, 26 years, male, 1.2: 1999.9656 kcal is stored as 2000
StoredTdeeRoundedUp ==
    /\ ProfileStored
    /\ ExactTDEE(StoredForm) = [whole |-> 1999, rest |-> 96560000]
    /\ DocData.tdee = 2000
    /\ lastRender.done /\ lastRender.tdee = 2000

\* the stored profile is a valid one: positive weight, height and age
ValidProfileStored ==
    /\ ProfileStored
    /\ DocData.weight > 0 /\ DocData.height > 0 /\ DocData.age > 0

\* C13 as stated: for every valid profile (positive weight, height, age,
\* either gender) and multipliers m1 < m2, TDEE(m1) <= TDEE(m2).
TdeeMonotoneInMultiplier ==
    ValidProfileStored =>
        \A m2 \in Multipliers :
            LET other == ComputeTDEE([StoredForm EXCEPT !.m = m2])
            IN  /\ DocData.activityLevel < m2 => DocData.tdee <= other
                /\ m2 < DocData.activityLevel => other <= DocData.tdee

\* C13 amended: for every valid profile whose BMR is not negative and
\* multipliers m1 < m2, TDEE(m1) <= TDEE(m2).
TdeeMonotoneForNonNegativeBmr ==
    (ValidProfileStored /\ Bmr5(StoredForm) >= 0) =>
        \A m2 \in Multipliers :
            LET other == ComputeTDEE([StoredForm EXCEPT !.m = m2])
            IN  /\ DocData.activityLevel < m2 => DocData.tdee <= other
                /\ m2 < DocData.activityLevel => other <= DocData.tdee

\* 150 lb, 70 in, 26 years, male saved at 1.2: 2000, and 2583 at 1.55
TdeeGrowsWithMultiplier ==
    /\ ValidProfileStored
    /\ Bmr5(StoredForm) >= 0
    /\ DocData.activityLevel = 1200
    /\ DocData.tdee = 2000
    /\ ComputeTDEE([StoredForm EXCEPT !.m = 1550]) = 2583

\* C14: save-profile fails, writing nothing, whenever weight, height or age
\* is missing, zero or negative or the activity multiplier is missing or
\* not positive: no stored profile holds such a value.
StoredProfileIsValid ==
    ProfileStored =>
        /\ DocData.weight > 0 /\ DocData.height > 0 /\ DocData.age > 0
        /\ DocData.activityLevel > 0

\* the goal fields of a users/<uid> document
GoalOf(doc) ==
    IF doc = <<>>
    THEN [targetWeight |-> 0, dailyDeficitGoal |-> 0]
    ELSE [targetWeight |-> doc[1].targetWeight,
          dailyDeficitGoal |-> doc[1].dailyDeficitGoal]

\* C15: the stored goal changes only in a save-goal step whose target is
\* positive and below the current weight shown in the goals tab and whose
\* daily deficit is positive, and the in-memory goal then holds the same
\* two values; a blocked save-goal changes neither.
SaveGoalOnlyWhenValid ==
    [][ /\ GoalOf(userDoc') # GoalOf(userDoc) =>
            /\ GoalOf(userDoc').targetWeight > 0
            /\ GoalOf(userDoc').targetWeight < gCurrentWeight
            /\ GoalOf(userDoc').dailyDeficitGoal > 0
            /\ userGoal' = W(GoalOf(userDoc'))
        /\ userGoal' # userGoal => userGoal' = W(GoalOf(userDoc')) ]_vars

\* a goal of 140 lb at 750 kcal/day was saved at a current weight of 150
GoalSavedBelowCurrentWeight ==
    /\ GoalOf(userDoc) = [targetWeight |-> 140, dailyDeficitGoal |-> 750]
    /\ userGoal = W(GoalOf(userDoc))
    /\ gCurrentWeight = 150

\* the consumption wheel as the page shows it
RingState(d) ==
    [offset |-> d.calorieProgressOffset, stroke |-> d.calorieProgressStroke,
     number |-> d.deficitNumber, numberColor |-> d.deficitNumberColor,
     label |-> d.deficitLabel, goalLabel |-> d.goalLabelDisplay,
     goalValue |-> d.goalValue, remainingLabel |-> d.remainingLabelDisplay]

\* C19: renderHome is a function of its inputs: the wheel it leaves is the
\* wheel a call with the same totals, TDEE and goal leaves on the page as
\* first loaded, whatever was rendered before.
RenderIndependentOfHistory ==
    lr.done =>
        RingState(dom) =
            RingState(CalorieWheel(DomInit, lr.tdee,
                                   [in |-> lr.in, out |-> lr.out], lr.goal))

----------------------------------------------------------------------------
(* Adding and deleting entries, with the status line, the input box and    *)
(* the store calls that fail.                                              *)

\* text typed into #ai-input
Texts == {"2 eggs"}

\* answers of the estimation service, macros included
EntryResponses ==
    { [type |-> "meal", nan |-> FALSE, cals |-> 1500, tenths |-> 0,
       pro |-> Grams100(1234), fib |-> NoMacro, sug |-> Grams100(-50),
       fat |-> Grams100(0)],
      [type |-> "meal", nan |-> FALSE, cals |-> 1500, tenths |-> 6,
       pro |-> Grams100(1234), fib |-> Grams100(310), sug |-> Grams100(520),
       fat |-> Grams100(80)],
      [type |-> "exercise", nan |-> FALSE, cals |-> 2200, tenths |-> 0,
       pro |-> Grams100(1234), fib |-> Grams100(310), sug |-> NoMacro,
       fat |-> Grams100(-50)],
      [type |-> "snack", nan |-> FALSE, cals |-> 0, tenths |-> 4,
       pro |-> NoMacro, fib |-> NoMacro, sug |-> NoMacro, fat |-> NoMacro],
      [type |-> "meal", nan |-> FALSE, cals |-> -100, tenths |-> 0,
       pro |-> Grams100(1234), fib |-> NoMacro, sug |-> NoMacro,
       fat |-> NoMacro],
      [type |-> "meal", nan |-> TRUE, cals |-> 0, tenths |-> 0,
       pro |-> Grams100(1234), fib |-> NoMacro, sug |-> NoMacro,
       fat |-> NoMacro] }

\* how the calls of one ai-btn click end: both succeed, callGemini rejects,
\* or addDoc rejects
Outcomes == {"ok", "callFails", "writeFails"}

StatusAdded == "Entry added successfully (gemini)!"
StatusError == "Error: "

\* the input box cleared whether or not the entry was appended
InputAlwaysCleared(text, appended) == ""

\* input.value after the click: "" after addDoc (line 750), else untouched
InputAfterClick(text, appended) == IF appended THEN "" ELSE text

\* ai-btn onclick with `text` in the input box: callGemini answers `resp`,
\* the validated result is appended with addDoc, the input is cleared, the
\* status line confirms for 2 s and loadData is called; any throw on the way
\* ends in the catch block that writes "Error: ..." into the status line
AiBtnClick(text, resp, outcome) ==
    /\ signedIn
    /\ text # ""
    /\ LET result   == validateAndNormalizeResult(resp)
           appended == outcome = "ok" /\ result.ok
       IN  /\ aiInput' = InputAfterClick(text, appended)
           /\ IF appended
              THEN /\ nextId < MaxLogs
                   /\ InFlight < loadCap
                   /\ nextId' = nextId + 1
                   /\ storeLogs' = storeLogs \cup
                          {[id |-> nextId + 1, type |-> result.type,
                            cals |-> result.cals, day |-> "today",
                            pro |-> result.pro, fib |-> result.fib,
                            sug |-> result.sug, fat |-> result.fat]}
                   /\ statusMsg' = StatusAdded
                   /\ statusTimers' = statusTimers + 1
                   /\ StartLoad
              ELSE /\ statusMsg' = StatusError
                   /\ UNCHANGED <<nextId, storeLogs, statusTimers, pending>>
    /\ UNCHANGED <<signedIn, chain, userDoc, allLogs, userTDEE, userGoal, dom,
                   masterList, pTdeeDisplay, pWeight, gCurrentWeight, fetched,
                   lastRender, statsOutput, loadCap>>
    /\ UNCHANGED <<checked, sideVars>>

\* setTimeout(() => { status.innerText = ""; }, 2000) fires
StatusTimeout ==
    /\ statusTimers > 0
    /\ statusTimers' = statusTimers - 1
    /\ statusMsg' = ""
    /\ UNCHANGED <<signedIn, chain, storeLogs, userDoc, allLogs, userTDEE,
                   userGoal, dom, masterList, pTdeeDisplay, pWeight,
                   gCurrentWeight, pending, fetched, nextId, lastRender,
                   statsOutput, aiInput, loadCap>>
    /\ UNCHANGED <<checked, sideVars>>

\* a failed load that empties the list: allLogs = [] before the throw
FetchFailClearing ==
    /\ pending > 0
    /\ pending' = pending - 1
    /\ allLogs' = {}
    /\ UNCHANGED <<signedIn, chain, storeLogs, userDoc, userTDEE,
                   userGoal, dom, masterList, pTdeeDisplay, pWeight,
                   gCurrentWeight, fetched, nextId, lastRender>>
    /\ UNCHANGED <<statsVars, entryVars, loadCap>>
    /\ UNCHANGED <<checked, sideVars>>

\* the logs query of a loadData call is rejected: await getDocs throws and
\* the rest of loadData does not run
FetchFail ==
    /\ pending > 0
    /\ pending' = pending - 1
    /\ UNCHANGED <<signedIn, chain, storeLogs, userDoc, allLogs, userTDEE,
                   userGoal, dom, masterList, pTdeeDisplay, pWeight,
                   gCurrentWeight, fetched, nextId, lastRender>>
    /\ UNCHANGED <<statsVars, entryVars, loadCap>>
    /\ UNCHANGED <<checked, sideVars>>

\* deleteSelected with the checkboxes of `ids` checked when one deleteDoc is
\* rejected: Promise.all throws, the deletes of `done` went through, and
\* neither the checkboxes nor the list are touched
DeleteSelectedFail(ids, done) ==
    /\ signedIn
    /\ ids # {}
    /\ ids \subseteq dom.logList \cup masterList
    /\ done \subseteq ids /\ done # ids
    /\ storeLogs' = { l \in storeLogs : l.id \notin done }
    /\ UNCHANGED <<signedIn, chain, userDoc, allLogs, userTDEE, userGoal, dom,
                   masterList, pTdeeDisplay, pWeight, gCurrentWeight,
                   pending, fetched, nextId, lastRender>>
    /\ UNCHANGED <<statsVars, entryVars, loadCap>>
    /\ UNCHANGED <<checked, sideVars>>

NextEntry ==
    \/ SignIn
    \/ LoadProfileDone
    \/ LoadGoalsDone
    \/ Fetch
    \/ FetchFail
    \/ \E snap \in BagToSet(fetched) : LoadDataResolve(snap)
    \/ \E text \in Texts : \E resp \in EntryResponses : \E o \in Outcomes :
           AiBtnClick(text, resp, o)
    \/ StatusTimeout
    \/ \E ids \in SUBSET (dom.logList \cup masterList) : DeleteSelected(ids)
    \/ \E ids \in SUBSET (dom.logList \cup masterList) : \E done \in SUBSET ids :
           DeleteSelectedFail(ids, done)

SpecEntry == Init /\ [][NextEntry]_vars

\* the estimation of an ai-btn click fails: the call is rejected, or the
\* calorie value of the answer is missing, non-numeric or negative
EstimationFails(resp, outcome) ==
    outcome = "callFails" \/ resp.nan \/ resp.cals < 0

\* C16: an ai-btn click whose estimation fails appends nothing, writes the
\* error into the status line and leaves the typed text in the input box;
\* the input box is emptied only in a step that appends an entry.
FailedEstimationKeepsInput ==
    [][ /\ \A text \in Texts : \A resp \in EntryResponses : \A o \in Outcomes :
              (AiBtnClick(text, resp, o) /\ EstimationFails(resp, o)) =>
                  /\ storeLogs' = storeLogs
                  /\ statusMsg' = StatusError
                  /\ aiInput' = text
        /\ (aiInput # "" /\ aiInput' = "") =>
              (nextId' = nextId + 1 /\ Cardinality(storeLogs') = Cardinality(storeLogs) + 1)
      ]_vars

\* the estimation failed: the error is shown, the text is still in the
\* input box and nothing was stored
RetryAfterErrorShown ==
    /\ statusMsg = StatusError
    /\ aiInput \in Texts
    /\ storeLogs = {}
    /\ nextId = 0

\* C17: a step in which a store call fails (the logs query of a load, the
\* addDoc of an append, a deleteDoc of a batch delete) leaves the in-memory
\* log list and everything renderHome and renderMaster drew as they were.
StoreFailureLeavesViewUnchanged ==
    [][ ( \/ FetchFail
          \/ \E text \in Texts : \E resp \in EntryResponses :
                 AiBtnClick(text, resp, "writeFails")
          \/ \E ids \in SUBSET (dom.logList \cup masterList) :
             \E done \in SUBSET ids : DeleteSelectedFail(ids, done) )
        => UNCHANGED <<allLogs, dom, masterList, lastRender>> ]_vars

\* an entry was appended and the load that followed failed: the list in
\* memory is still the one from before the append
LoadFailedAfterAppend ==
    /\ signedIn /\ chain = "idle" /\ InFlight = 0
    /\ lastRender.done
    /\ storeLogs # {}
    /\ allLogs = {}
    /\ dom.logList = {}

\* C20: every entry in the store has type meal or exercise, a non-negative
\* integer cals and non-negative macros, all four 0 for an exercise; an
\* answer with a valid calorie value is appended whatever its macros are,
\* a missing, non-numeric or negative macro being stored as 0.
AppendedEntriesNormalized ==
    [][ /\ \A l \in storeLogs' :
              /\ l.type \in {"meal", "exercise"}
              /\ l.cals \in Nat
              /\ l.pro >= 0 /\ l.fib >= 0 /\ l.sug >= 0 /\ l.fat >= 0
              /\ l.type = "exercise" =>
                     (l.pro = 0 /\ l.fib = 0 /\ l.sug = 0 /\ l.fat = 0)
        /\ \A text \in Texts : \A resp \in EntryResponses :
              (AiBtnClick(text, resp, "ok") /\ ~EstimationFails(resp, "ok")) =>
                  \E l \in storeLogs' \ storeLogs :
                      /\ (resp.pro.nan \/ resp.pro.v < 0) => l.pro = 0
                      /\ (resp.fib.nan \/ resp.fib.v < 0) => l.fib = 0
                      /\ (resp.sug.nan \/ resp.sug.v < 0) => l.sug = 0
                      /\ (resp.fat.nan \/ resp.fat.v < 0) => l.fat = 0
                      /\ (l.type = "meal" /\ ~resp.pro.nan /\ resp.pro.v >= 0) =>
                             Abs(10 * l.pro - resp.pro.v) <= 5
      ]_vars

\* an exercise answered with 12.34 g of protein was stored with macros 0
ExerciseStoredWithoutMacros ==
    \E l \in storeLogs :
        /\ l.type = "exercise" /\ l.cals = 2200
        /\ l.pro = 0 /\ l.fib = 0 /\ l.sug = 0 /\ l.fat = 0

----------------------------------------------------------------------------
(* Overlapping loads: the session with one more loadData call allowed in   *)
(* flight, so that a load started before a write can still be on its way    *)
(* when the load started after the write has been applied.                 *)

InitLoads ==
    /\ signedIn = FALSE
    /\ chain = "idle"
    /\ storeLogs = {}
    /\ userDoc = <<>>
    /\ allLogs = {}
    /\ userTDEE = 0
    /\ userGoal = <<>>
    /\ dom = DomInit
    /\ masterList = {}
    /\ pTdeeDisplay = Html
    /\ pWeight = 0
    /\ gCurrentWeight = 0
    /\ pending = 0
    /\ fetched = EmptyBag
    /\ nextId = 0
    /\ lastRender = NoRender
    /\ statsOutput = Html
    /\ aiInput = ""
    /\ statusMsg = ""
    /\ statusTimers = 0
    /\ loadCap = MaxInFlight + 1
    /\ InitSide

NextLoads ==
    \/ SignIn
    \/ LoadProfileDone
    \/ LoadGoalsDone
    \/ Fetch
    \/ \E snap \in BagToSet(fetched) : LoadDataResolve(snap)
    \/ \E resp \in Responses : AddEntry(resp)
    \/ \E ids \in SUBSET (dom.logList \cup masterList) : DeleteSelected(ids)
    \/ \E f \in ProfileForms : SaveProfile(f)
    \/ OpenGoalsTab
    \/ \E f \in GoalForms : SaveGoal(f)

SpecLoads == InitLoads /\ [][NextLoads]_vars

\* C18: when no store call fails, once no load is in flight the in-memory
\* log list is the set of entries the store holds for the user.
ReadYourWrites ==
    (signedIn /\ chain = "idle" /\ InFlight = 0) => allLogs = storeLogs

----------------------------------------------------------------------------
(* Deleting entries.  SpecDelete follows the checkboxes createLogEl puts    *)
(* next to every entry of the home list and of the master list, and the     *)
(* click on "Delete Selected" with the answer given to confirm().  Every    *)
(* entry is logged today in it.  The Delete Selected buttons, which only    *)
(* show the number of checked boxes, are not followed.                      *)

\* line 588: the user ticks or unticks the checkbox of entry `id` in `list`
TickEntry(list, id) ==
    /\ signedIn
    /\ \/ list = "home" /\ id \in dom.logList
       \/ list = "master" /\ id \in masterList
    /\ checked' = [checked EXCEPT
                     ![list] = IF id \in @ THEN @ \ {id} ELSE @ \cup {id}]
    /\ UNCHANGED <<signedIn, chain, storeLogs, userDoc, allLogs, userTDEE,
                   userGoal, dom, masterList, pTdeeDisplay, pWeight,
                   gCurrentWeight, pending, fetched, nextId, lastRender>>
    /\ UNCHANGED <<statsVars, entryVars, loadCap, sideVars>>

\* the id of every entry there can be, checked or not
SelectedIdsOfEveryEntry(boxes) == 1..MaxLogs

\* lines 614-615: the data-id of every .entry-checkbox:checked of the page
SelectedIds(boxes) == boxes.home \cup boxes.master

\* deleteSelected: nothing without a checked box or when confirm() is
\* answered with Cancel; else deleteDoc for every selected id (a no-op for
\* an id the store no longer holds), every box unchecked, loadData
DeleteSelectedClick(confirmed) ==
    /\ signedIn
    /\ IF SelectedIds(checked) = {} \/ ~confirmed
       THEN UNCHANGED <<storeLogs, checked, pending>>
       ELSE /\ InFlight < loadCap
            /\ storeLogs' = { l \in storeLogs : l.id \notin SelectedIds(checked) }
            /\ checked' = NoneChecked
            /\ StartLoad
    /\ UNCHANGED <<signedIn, chain, userDoc, allLogs, userTDEE, userGoal, dom,
                   masterList, pTdeeDisplay, pWeight, gCurrentWeight,
                   fetched, nextId, lastRender>>
    /\ UNCHANGED <<statsVars, entryVars, loadCap, sideVars>>

InitDelete ==
    /\ signedIn = FALSE
    /\ chain = "idle"
    /\ storeLogs = {}
    /\ userDoc = <<>>
    /\ allLogs = {}
    /\ userTDEE = 0
    /\ userGoal = <<>>
    /\ dom = DomInit
    /\ masterList = {}
    /\ pTdeeDisplay = Html
    /\ pWeight = 0
    /\ gCurrentWeight = 0
    /\ pending = 0
    /\ fetched = EmptyBag
    /\ nextId = 0
    /\ lastRender = NoRender
    /\ statsOutput = Html
    /\ aiInput = ""
    /\ statusMsg = ""
    /\ statusTimers = 0
    /\ loadCap = MaxInFlight + 1
    /\ InitSide

NextDelete ==
    \/ SignIn
    \/ LoadProfileDone
    \/ LoadGoalsDone
    \/ Fetch
    \/ \E snap \in BagToSet(fetched) : LoadDataResolve(snap)
    \/ \E resp \in EntryResponses : AddEntry(resp)
    \/ \E list \in {"home", "master"}, id \in 1..MaxLogs : TickEntry(list, id)
    \/ \E confirmed \in BOOLEAN : DeleteSelectedClick(confirmed)

SpecDelete == InitDelete /\ [][NextDelete]_vars

IdsOf(logs) == { l.id : l \in logs }

----------------------------------------------------------------------------
(* The totals of the day.  SpecDay starts from a store that already holds   *)
(* entries of today and of earlier days, as earlier sessions left them.     *)

\* entries of earlier sessions: a meal and a workout of today, a meal and a
\* workout of an earlier day
PriorLogs ==
    { [id |-> 11, type |-> "meal", cals |-> 500, day |-> "today",
       pro |-> 10, fib |-> 0, sug |-> 5, fat |-> 20],
      [id |-> 12, type |-> "exercise", cals |-> 200, day |-> "today",
       pro |-> 0, fib |-> 0, sug |-> 0, fat |-> 0],
      [id |-> 13, type |-> "meal", cals |-> 300, day |-> "earlier",
       pro |-> 10, fib |-> 0, sug |-> 5, fat |-> 20],
      [id |-> 14, type |-> "exercise", cals |-> 100, day |-> "earlier",
       pro |-> 0, fib |-> 0, sug |-> 0, fat |-> 0] }

InitDay ==
    /\ signedIn = FALSE
    /\ chain = "idle"
    /\ storeLogs \in SUBSET PriorLogs
    /\ userDoc = <<>>
    /\ allLogs = {}
    /\ userTDEE = 0
    /\ userGoal = <<>>
    /\ dom = DomInit
    /\ masterList = {}
    /\ pTdeeDisplay = Html
    /\ pWeight = 0
    /\ gCurrentWeight = 0
    /\ pending = 0
    /\ fetched = EmptyBag
    /\ nextId = 0
    /\ lastRender = NoRender
    /\ statsOutput = Html
    /\ aiInput = ""
    /\ statusMsg = ""
    /\ statusTimers = 0
    /\ loadCap = MaxInFlight
    /\ InitSide

NextDayTotals ==
    \/ SignIn
    \/ LoadProfileDone
    \/ LoadGoalsDone
    \/ Fetch
    \/ \E snap \in BagToSet(fetched) : LoadDataResolve(snap)
    \/ \E resp \in EntryResponses : AddEntry(resp)
    \/ NextDay

SpecDay == InitDay /\ [][NextDayTotals]_vars

\* the calories of the entries of `logs` with the given type and day, added
\* up entry by entry in the order of their ids
RECURSIVE CalsOf(_, _, _)
CalsOf(logs, type, day) ==
    IF logs = {} THEN 0
    ELSE LET l == CHOOSE x \in logs : \A y \in logs : y.id <= x.id
         IN  CalsOf(logs \ {l}, type, day)
               + (IF l.type = type /\ l.day = day THEN l.cals ELSE 0)

\* the calories of every entry of `logs` of that day, whatever its type
RECURSIVE CalsOfDay(_, _)
CalsOfDay(logs, day) ==
    IF logs = {} THEN 0
    ELSE LET l == CHOOSE x \in logs : \A y \in logs : y.id <= x.id
         IN  CalsOfDay(logs \ {l}, day) + (IF l.day = day THEN l.cals ELSE 0)

\* C22: every renderHome of loadData shows as #d-in the sum of cals over
\* exactly the meal entries of allLogs dated the current local day and as
\* #d-out the sum over exactly the exercise entries of that day; together
\* they are the calories of that day's entries, each counted once, and the
\* entries of other days change neither.
HomeTotalsAreTodaysByType ==
    [][ \A snap \in BagToSet(fetched) :
          LoadDataResolve(snap) =>
            /\ dom'.dIn = W(CalsOf(allLogs', "meal", "today"))
            /\ dom'.dOut = W(CalsOf(allLogs', "exercise", "today"))
            /\ dom'.dIn[1] + dom'.dOut[1] = CalsOfDay(allLogs', "today")
            /\ dom'.dIn[1] + dom'.dOut[1]
                 = CalsOfDay({ l \in allLogs' : l.day = "today" }, "today")
      ]_vars

\* the home screen shows the totals of a day with a meal and a workout
\* while allLogs also holds a meal and a workout of an earlier day
TotalsShownBesideEarlierEntries ==
    /\ lr.done
    /\ \E m, e, om, oe \in allLogs :
          /\ m.type = "meal" /\ m.day = "today" /\ m.cals > 0
          /\ e.type = "exercise" /\ e.day = "today" /\ e.cals > 0
          /\ om.type = "meal" /\ om.day = "earlier" /\ om.cals > 0
          /\ oe.type = "exercise" /\ oe.day = "earlier" /\ oe.cals > 0
    /\ dom.dIn # W(0)
    /\ dom.dOut # W(0)
    /\ dom.logList = { l.id : l \in { x \in allLogs : x.day = "today" } }

----------------------------------------------------------------------------
(* The estimateCalories Cloud Function (functions/index.js, and its v2      *)
(* onCall form).  A JavaScript value is a record: t is what typeof gives,   *)
(* s the string, n the number, nan whether the number is NaN.               *)

Undefined == [t |-> "undefined", s |-> "", n |-> 0, nan |-> FALSE]
Str(s)    == [t |-> "string", s |-> s, n |-> 0, nan |-> FALSE]
Num(n)    == [t |-> "number", s |-> "", n |-> n, nan |-> FALSE]
NaN       == [t |-> "number", s |-> "", n |-> 0, nan |-> TRUE]

\* !x
Falsy(x) ==
    \/ x.t = "undefined"
    \/ x.t = "string" /\ x.s = ""
    \/ x.t = "number" /\ (x.nan \/ x.n = 0)

\* what the callable is sent and what it finds: whether the caller is
\* authenticated, the two validated fields of data, whether the Gemini key
\* is configured, and what Gemini answers if asked
FnTexts == {Undefined, Str(""), Str("2 eggs"), Num(2)}
FnWeights == {Undefined, Num(0), NaN, Num(154), Num(-5), Str("154")}
GeminiAnswers == {"text", "error", "empty", "unreachable"}
FnRequests ==
    [auth : BOOLEAN, userText : FnTexts, userWeightLbs : FnWeights,
     key : BOOLEAN, gemini : GeminiAnswers]

Rejection(code) == [code |-> code, geminiCalled |-> FALSE]

\* the function with the input validation placed before the check of auth
estimateCaloriesValidatingFirst(req) ==
    IF Falsy(req.userText) \/ req.userText.t # "string"
    THEN Rejection("invalid-argument")
    ELSE IF Falsy(req.userWeightLbs) \/ req.userWeightLbs.t # "number"
    THEN Rejection("invalid-argument")
    ELSE IF ~req.auth
    THEN Rejection("unauthenticated")
    ELSE IF ~req.key
    THEN Rejection("failed-precondition")
    ELSE [code |-> IF req.gemini = "text" THEN "ok" ELSE "internal",
          geminiCalled |-> TRUE]

\* exports.estimateCalories: the HttpsError code thrown ("ok" for a
\* returned { success: true, rawText }) and whether fetch(url) was called
estimateCalories(req) ==
    IF ~req.auth
    THEN Rejection("unauthenticated")
    ELSE IF Falsy(req.userText) \/ req.userText.t # "string"
    THEN Rejection("invalid-argument")
    ELSE IF Falsy(req.userWeightLbs) \/ req.userWeightLbs.t # "number"
    THEN Rejection("invalid-argument")
    ELSE IF ~req.key
    THEN Rejection("failed-precondition")
    ELSE [code |-> IF req.gemini = "text" THEN "ok" ELSE "internal",
          geminiCalled |-> TRUE]

\* one call of the function
CallEstimateCalories(req) ==
    /\ fnCall' = W([req |-> req, res |-> estimateCalories(req)])
    /\ UNCHANGED <<signedIn, chain, storeLogs, userDoc, allLogs, userTDEE,
                   userGoal, dom, masterList, pTdeeDisplay, pWeight,
                   gCurrentWeight, pending, fetched, nextId, lastRender>>
    /\ UNCHANGED <<statsVars, entryVars, loadCap, checked, away,
                   estimationCache, lastEstimate, gEstimatedDays, loginView>>

NextFunction == \E req \in FnRequests : CallEstimateCalories(req)

SpecFunction == Init /\ [][NextFunction]_vars

\* C23: an unauthenticated call is rejected with 'unauthenticated',
\* whatever its data; and Gemini is asked only for a call that is
\* authenticated, whose userText is a non-empty string and whose
\* userWeightLbs is a number other than 0 and NaN.
UnauthenticatedRejectedFirst ==
    fnCall # <<>> =>
        LET req == fnCall[1].req
            res == fnCall[1].res
        IN  /\ ~req.auth => res.code = "unauthenticated"
            /\ res.geminiCalled =>
                  /\ req.auth
                  /\ req.userText = Str("2 eggs")
                  /\ req.userWeightLbs \in {Num(154), Num(-5)}
            /\ res.code \in {"ok", "internal"} <=> res.geminiCalled

\* an unauthenticated call without userText and without userWeightLbs was
\* rejected as unauthenticated
UnauthenticatedCallWithoutData ==
    /\ fnCall # <<>>
    /\ ~fnCall[1].req.auth
    /\ fnCall[1].req.userText = Undefined
    /\ fnCall[1].req.userWeightLbs = Undefined
    /\ fnCall[1].res = Rejection("unauthenticated")

----------------------------------------------------------------------------
(* Two accounts on one page.  userDoc and storeLogs are the documents of    *)
(* the account that is signed in or was signed in last, `away` those of     *)
(* the other account.  The page is not reloaded between the sessions.       *)

\* logout-btn onclick: signOut(auth); onAuthStateChanged(null) only swaps
\* the auth view and the app view.  The user logs out of a settled page.
SignOut ==
    /\ signedIn
    /\ chain \in {"idle", "failed"}
    /\ InFlight = 0
    /\ signedIn' = FALSE
    /\ chain' = "idle"
    /\ UNCHANGED <<storeLogs, userDoc, allLogs, userTDEE, userGoal, dom,
                   masterList, pTdeeDisplay, pWeight, gCurrentWeight,
                   pending, fetched, nextId, lastRender>>
    /\ UNCHANGED <<statsVars, entryVars, loadCap, checked, sideVars>>

\* the owner of the other account sits down at the login form: the next
\* sign-in is theirs, with their uid
SwitchAccount ==
    /\ ~signedIn
    /\ userDoc' = away.doc
    /\ storeLogs' = away.logs
    /\ away' = [doc |-> userDoc, logs |-> storeLogs]
    /\ UNCHANGED <<signedIn, chain, allLogs, userTDEE, userGoal, dom,
                   masterList, pTdeeDisplay, pWeight, gCurrentWeight,
                   pending, fetched, nextId, lastRender>>
    /\ UNCHANGED <<statsVars, entryVars, loadCap, checked, fnCall,
                   estimationCache, lastEstimate, gEstimatedDays, loginView>>

NextSession ==
    \/ SignIn
    \/ LoadProfileDone
    \/ LoadGoalsDone
    \/ Fetch
    \/ \E snap \in BagToSet(fetched) : LoadDataResolve(snap)
    \/ \E f \in ProfileForms : SaveProfile(f)
    \/ OpenGoalsTab
    \/ \E f \in GoalForms : SaveGoal(f)
    \/ SignOut
    \/ SwitchAccount

SpecSession == Init /\ [][NextSession]_vars

\* C24: whenever a user is signed in and the sign-in loads are over, the
\* TDEE and the goal renderHome would compute with are the tdee and the
\* dailyDeficitGoal stored for that user, and the goal is unset when the
\* user has no stored profile.
MemoryBelongsToSignedInUser ==
    (signedIn /\ chain = "idle") =>
        /\ RenderTdee(userTDEE, pTdeeDisplay) = DocData.tdee
        /\ RenderGoal(userGoal) = DocData.dailyDeficitGoal
        /\ userDoc = <<>> => userGoal = <<>>

----------------------------------------------------------------------------
(* loadData and the sign-in chain *)

\* C25: after every loadData whose query was answered, renderHome has run
\* to its end and renderMaster has listed the entries of allLogs, whatever
\* the goal is.
LoadDataRendersHomeAndMaster ==
    lr.done => (~lr.threw /\ masterList = IdsOf(allLogs))

\* C26: renderHome never runs while the loadProfile or the loadGoals of the
\* sign-in is still awaited, so no home render computes with a TDEE or goal
\* that is not loaded yet.
NoRenderBeforeSignInLoads ==
    lr.done => chain = "idle"

\* loadProfile: getDoc rejects; the catch logs the error and the promise
\* resolves, so .then() goes on to loadGoals
LoadProfileFail ==
    /\ chain = "profile"
    /\ chain' = "goals"
    /\ UNCHANGED <<signedIn, storeLogs, userDoc, allLogs, userTDEE, userGoal,
                   dom, masterList, pTdeeDisplay, pWeight, gCurrentWeight,
                   pending, fetched, nextId, lastRender>>
    /\ UNCHANGED <<statsVars, entryVars, loadCap, checked, sideVars>>

\* loadGoals: getDoc rejects; nothing catches it, the async callback of
\* .then() rejects at its await and loadData(user.uid) is not called
LoadGoalsFail ==
    /\ chain = "goals"
    /\ chain' = "failed"
    /\ UNCHANGED <<signedIn, storeLogs, userDoc, allLogs, userTDEE, userGoal,
                   dom, masterList, pTdeeDisplay, pWeight, gCurrentWeight,
                   pending, fetched, nextId, lastRender>>
    /\ UNCHANGED <<statsVars, entryVars, loadCap, checked, sideVars>>

NextSignIn ==
    \/ SignIn
    \/ LoadProfileDone
    \/ LoadProfileFail
    \/ LoadGoalsDone
    \/ LoadGoalsFail
    \/ Fetch
    \/ \E snap \in BagToSet(fetched) : LoadDataResolve(snap)
    \/ \E f \in ProfileForms : SaveProfile(f)
    \/ OpenGoalsTab
    \/ \E f \in GoalForms : SaveGoal(f)

\* every getDoc and getDocs is answered or rejected in the end and its
\* continuation runs; nothing obliges the user to click
SpecSignIn ==
    /\ Init
    /\ [][NextSignIn]_vars
    /\ WF_vars(LoadProfileDone \/ LoadProfileFail)
    /\ WF_vars(LoadGoalsDone \/ LoadGoalsFail)
    /\ WF_vars(Fetch)
    /\ WF_vars(\E snap \in BagToSet(fetched) : LoadDataResolve(snap))

\* C27: after a sign-in the logs are fetched and the home screen is
\* rendered in the end, also when the user has no profile document or the
\* fetch of the profile or of the goals fails (the logs query itself never
\* fails here).
SignInLeadsToRender ==
    signedIn ~> lastRender.done

----------------------------------------------------------------------------
(* The estimation cache.  estimationCache is the set of the Map's entries:  *)
(* key, value, and req, the arguments of the call that stored the entry     *)
(* (kept for the properties only).  null is 0 for height and age.           *)

\* entries the Map holds at most in a run
MaxCache == 1

DefaultWeightLbs == 154

\* getUserWeightLbs, getUserHeightInches, getUserAge on a field holding v
\* (0: empty or not a number)
getUserWeightLbs(v) == IF v > 0 THEN v ELSE DefaultWeightLbs
getUserHeightInches(v) == IF v > 0 THEN v ELSE 0
getUserAge(v) == IF v > 0 THEN v ELSE 0

\* what the user types into #ai-input and what #p-height, #p-age and
\* #p-gender hold at that moment
CacheTexts == {"Egg ", "egg"}
HeightFields == {0, 60}
AgeFields == {0, 60}
GenderFields == {"male", "female"}

\* text.toLowerCase().trim()
LowerTrim(text) == IF text = "Egg " THEN "egg" ELSE text

\* line 92: the template string of cacheKey
CacheKey(text, w, h, a, g) ==
    "unified:" \o LowerTrim(text) \o ":" \o ToString(w)
       \o (IF h # 0 THEN ":" \o ToString(h) ELSE "")
       \o (IF a # 0 THEN ":" \o ToString(a) ELSE "")
       \o (IF g # "" THEN ":" \o g ELSE "")

\* what the callable and Gemini answer: a meal, text that does not
\* validate, or an error
CacheAnswers == {"meal", "invalid", "error"}

\* callGemini(text) -> estimateWithGemini: a cached value is returned
\* without a call; else the Cloud Function is called and a validated
\* result is stored under the key
EstimateWithGemini(text, hField, aField, g, answer) ==
    /\ signedIn
    /\ LET w   == getUserWeightLbs(pWeight)
           h   == getUserHeightInches(hField)
           a   == getUserAge(aField)
           req == [text |-> text, w |-> w, h |-> h, a |-> a, g |-> g]
           key == CacheKey(text, w, h, a, g)
           hit == { e \in estimationCache : e.key = key }
       IN  IF hit # {}
           THEN /\ lastEstimate' =
                      W([req |-> req, hit |-> TRUE,
                         by |-> (CHOOSE e \in hit : TRUE).req])
                /\ UNCHANGED estimationCache
           ELSE /\ lastEstimate' = W([req |-> req, hit |-> FALSE, by |-> req])
                /\ estimationCache' =
                      IF answer = "meal"
                      THEN estimationCache \cup
                              {[key |-> key, value |-> answer, req |-> req]}
                      ELSE estimationCache
                /\ answer = "meal" => Cardinality(estimationCache) < MaxCache
    /\ UNCHANGED <<signedIn, chain, storeLogs, userDoc, allLogs, userTDEE,
                   userGoal, dom, masterList, pTdeeDisplay, pWeight,
                   gCurrentWeight, pending, fetched, nextId, lastRender>>
    /\ UNCHANGED <<statsVars, entryVars, loadCap, checked, away, fnCall,
                   gEstimatedDays, loginView>>

NextCache ==
    \/ SignIn
    \/ LoadProfileDone
    \/ LoadGoalsDone
    \/ Fetch
    \/ \E snap \in BagToSet(fetched) : LoadDataResolve(snap)
    \/ \E text \in CacheTexts, h \in HeightFields, a \in AgeFields,
          g \in GenderFields, answer \in CacheAnswers :
             EstimateWithGemini(text, h, a, g, answer)

SpecCache == Init /\ [][NextCache]_vars

\* the estimate of a request is the stored answer of another only for the
\* same normalized text and the same four profile values
SameTuple(r, q) ==
    /\ LowerTrim(r.text) = LowerTrim(q.text)
    /\ r.w = q.w /\ r.h = q.h /\ r.a = q.a /\ r.g = q.g

\* C28: a request is answered from the cache only with an entry stored for
\* the same normalized text, weight, height, age and gender; and a request
\* with such an entry in the cache is answered from it.
CacheSharedOnlyByEqualTuples ==
    /\ lastEstimate # <<>> /\ lastEstimate[1].hit
          => SameTuple(lastEstimate[1].req, lastEstimate[1].by)
    /\ lastEstimate # <<>> /\ ~lastEstimate[1].hit
          => \A e \in estimationCache :
                SameTuple(e.req, lastEstimate[1].req)
                   => e.key = CacheKey(lastEstimate[1].req.text,
                                       lastEstimate[1].req.w,
                                       lastEstimate[1].req.h,
                                       lastEstimate[1].req.a,
                                       lastEstimate[1].req.g)

----------------------------------------------------------------------------
(* The estimate of the days to the target weight on the goals tab.          *)
(* gEstimatedDays holds #g-target-weight (target), #g-deficit-slider        *)
(* (deficit), #g-days-display (days) and the display style of               *)
(* #g-estimated-days; #g-current-weight is gCurrentWeight.  Weights are     *)
(* whole pounds; 0 is an empty field.                                       *)

Null == <<>>

\* Math.ceil(a / b) for b > 0
Ceil(a, b) == -((-a) \div b)

CaloriesPerPound == 3500

\* the estimate rounded down instead of up
calculateDaysToTargetRoundingDown(currentWeight, targetWeight, dailyDeficit) ==
    IF currentWeight = 0 \/ targetWeight = 0 \/ dailyDeficit = 0
          \/ dailyDeficit <= 0
    THEN Null
    ELSE IF targetWeight >= currentWeight
    THEN Null
    ELSE W(((currentWeight - targetWeight) * CaloriesPerPound)
              \div dailyDeficit)

\* calculateDaysToTarget: null, or <<days>>
calculateDaysToTarget(currentWeight, targetWeight, dailyDeficit) ==
    IF currentWeight = 0 \/ targetWeight = 0 \/ dailyDeficit = 0
          \/ dailyDeficit <= 0
    THEN Null
    ELSE IF targetWeight >= currentWeight
    THEN Null
    ELSE W(Ceil((currentWeight - targetWeight) * CaloriesPerPound,
                dailyDeficit))

\* updateDaysEstimate with the three fields holding these values: the box
\* after the call
updateDaysEstimate(box, currentWeight, targetWeight, deficit) ==
    IF currentWeight = 0 \/ targetWeight = 0 \/ deficit = 0 \/ deficit <= 0
    THEN [box EXCEPT !.display = W("none")]
    ELSE LET days == calculateDaysToTarget(currentWeight, targetWeight,
                                           deficit)
         IN  IF days # Null /\ days[1] > 0
             THEN [box EXCEPT !.days = days, !.display = W("block")]
             ELSE [box EXCEPT !.display = W("none")]

DayWeights == {0, 150, 151}
DayTargets == {0, 140, 149, 150, 160, -10}
DayDeficits == {0, 250, 750, 3500, -250}

\* the user types w into #p-weight and opens the goals tab: updateGoalsTab
TypeWeightOpenGoals(w) ==
    /\ signedIn
    /\ pWeight' = w
    /\ gCurrentWeight' = w
    /\ gEstimatedDays' = updateDaysEstimate(gEstimatedDays, w,
                             gEstimatedDays.target, gEstimatedDays.deficit)
    /\ UNCHANGED <<signedIn, chain, storeLogs, userDoc, allLogs, userTDEE,
                   userGoal, dom, masterList, pTdeeDisplay, pending, fetched,
                   nextId, lastRender>>
    /\ UNCHANGED <<statsVars, entryVars, loadCap, checked, away, fnCall,
                   estimationCache, lastEstimate, loginView>>

\* the input handler of #g-target-weight, the field now holding t
TargetWeightInput(t) ==
    /\ signedIn
    /\ gEstimatedDays' =
          updateDaysEstimate([gEstimatedDays EXCEPT !.target = t],
                             gCurrentWeight, t, gEstimatedDays.deficit)
    /\ UNCHANGED <<signedIn, chain, storeLogs, userDoc, allLogs, userTDEE,
                   userGoal, dom, masterList, pTdeeDisplay, pWeight,
                   gCurrentWeight, pending, fetched, nextId, lastRender>>
    /\ UNCHANGED <<statsVars, entryVars, loadCap, checked, away, fnCall,
                   estimationCache, lastEstimate, loginView>>

\* the input handler of #g-deficit-slider, the slider now at d
DeficitSliderInput(d) ==
    /\ signedIn
    /\ gEstimatedDays' =
          updateDaysEstimate([gEstimatedDays EXCEPT !.deficit = d],
                             gCurrentWeight, gEstimatedDays.target, d)
    /\ UNCHANGED <<signedIn, chain, storeLogs, userDoc, allLogs, userTDEE,
                   userGoal, dom, masterList, pTdeeDisplay, pWeight,
                   gCurrentWeight, pending, fetched, nextId, lastRender>>
    /\ UNCHANGED <<statsVars, entryVars, loadCap, checked, away, fnCall,
                   estimationCache, lastEstimate, loginView>>

\* no profile is saved in these runs, so loadGoals finds no document and
\* leaves the goals tab alone
NextDays ==
    \/ SignIn
    \/ LoadProfileDone
    \/ LoadGoalsDone
    \/ Fetch
    \/ \E snap \in BagToSet(fetched) : LoadDataResolve(snap)
    \/ \E w \in DayWeights : TypeWeightOpenGoals(w)
    \/ \E t \in DayTargets : TargetWeightInput(t)
    \/ \E d \in DayDeficits : DeficitSliderInput(d)

SpecDays == Init /\ [][NextDays]_vars

\* C29: for the values the goals tab holds, calculateDaysToTarget is null
\* when an argument is missing or 0, when the deficit is not positive, or
\* when the target is not below the current weight; else it is the
\* smallest integer d with d * deficit >= (current - target) * 3500, which
\* is at least 1; and that is the number the estimate box shows.
DaysToTargetIsSmallestSufficient ==
    LET c == gCurrentWeight
        t == gEstimatedDays.target
        d == gEstimatedDays.deficit
        r == calculateDaysToTarget(c, t, d)
    IN  IF c = 0 \/ t = 0 \/ d <= 0 \/ t >= c
        THEN r = <<>>
        ELSE /\ r # <<>>
             /\ r[1] >= 1
             /\ r[1] * d >= (c - t) * 3500
             /\ (r[1] - 1) * d < (c - t) * 3500
             /\ gEstimatedDays.display = <<"block">>
             /\ gEstimatedDays.days = r

\* losing 1 lb at 750 kcal a day takes 3500/750 days: the box shows 5
FiveDaysForOnePound ==
    /\ gCurrentWeight = 150
    /\ gEstimatedDays.target = 149
    /\ gEstimatedDays.deficit = 750
    /\ gEstimatedDays.display = <<"block">>
    /\ gEstimatedDays.days = <<5>>

----------------------------------------------------------------------------
(* The password-reset form.  loginView holds #email-reset (emailReset),     *)
(* the text of #login-error (error), the text and the display style of     *)
(* #login-success (success, successDisplay), the form switchAuthTab shows   *)
(* (tab) and the setTimeout callbacks armed to return to the login form     *)
(* (timers).                                                                *)

\* setTimeout callbacks of the reset form that may be armed at once
MaxResetTimers == 1

\* what the user may type as an email address
ResetEmails == {"", " ", "ann", "ann@x.org", "bob@x.org"}

\* value.trim()
Trim(s) == IF s = " " THEN "" ELSE s

\* email.includes('@')
IncludesAt(s) == s \in {"ann@x.org", "bob@x.org"}

\* what sendPasswordResetEmail does: resolves ("sent") or rejects with a code
ResetOutcomes ==
    {"sent", "auth/user-not-found", "auth/invalid-email",
     "auth/network-request-failed"}

\* switchAuthTab(tab): the messages are cleared and one form is shown
switchAuthTab(view, tab) ==
    [view EXCEPT !.error = W(""), !.successDisplay = W("none"),
                 !.tab = W(tab)]

\* reset-btn onclick: the form after the handler, when
\* sendPasswordResetEmail ends as `outcome` (the check mark that opens the
\* two success messages is left out)
resetView(view, outcome) ==
    LET email == Trim(view.emailReset)
    IN  IF email = ""
        THEN [view EXCEPT !.error = W("Please enter your email address"),
                          !.successDisplay = W("none")]
        ELSE IF ~IncludesAt(email)
        THEN [view EXCEPT !.error = W("Please enter a valid email address"),
                          !.successDisplay = W("none")]
        ELSE IF outcome = "sent"
        THEN [view EXCEPT
                !.error = W(""),
                !.success = W("Password reset link sent to " \o email
                              \o "! Check your inbox."),
                !.successDisplay = W("block"),
                !.emailReset = "",
                !.timers = @ + 1]
        ELSE IF outcome = "auth/user-not-found"
        THEN [view EXCEPT
                !.error = W(""),
                !.success = W("If an account exists with " \o email
                              \o ", a password reset link has been sent."),
                !.successDisplay = W("block"),
                !.emailReset = "",
                !.timers = @ + 1]
        ELSE [view EXCEPT
                !.error = W(IF outcome = "auth/invalid-email"
                            THEN "Invalid email address"
                            ELSE "Error: " \o outcome),
                !.successDisplay = W("none")]

LoginUnchanged ==
    /\ UNCHANGED <<signedIn, chain, storeLogs, userDoc, allLogs, userTDEE,
                   userGoal, dom, masterList, pTdeeDisplay, pWeight,
                   gCurrentWeight, pending, fetched, nextId, lastRender>>
    /\ UNCHANGED <<statsVars, entryVars, loadCap, checked, away, fnCall,
                   estimationCache, lastEstimate, gEstimatedDays>>

\* forgot-password-link onclick, #email-password holding `typed`
ForgotPasswordLink(typed) ==
    /\ ~signedIn
    /\ loginView' =
          switchAuthTab([loginView EXCEPT
                           !.emailReset = IF Trim(typed) # "" THEN Trim(typed)
                                          ELSE @],
                        "forgot-password")
    /\ LoginUnchanged

\* back-to-login onclick
BackToLogin ==
    /\ ~signedIn
    /\ loginView' = switchAuthTab(loginView, "password")
    /\ LoginUnchanged

\* the user types into #email-reset
TypeEmailReset(typed) ==
    /\ ~signedIn
    /\ loginView.tab = W("forgot-password")
    /\ loginView' = [loginView EXCEPT !.emailReset = typed]
    /\ LoginUnchanged

\* reset-btn onclick
ResetBtnClick(outcome) ==
    /\ ~signedIn
    /\ loginView.tab = W("forgot-password")
    /\ loginView' = resetView(loginView, outcome)
    /\ loginView'.timers <= MaxResetTimers
    /\ LoginUnchanged

\* three seconds after a reset: switchAuthTab('password')
ResetTimerFires ==
    /\ loginView.timers > 0
    /\ loginView' = switchAuthTab([loginView EXCEPT !.timers = @ - 1],
                                  "password")
    /\ LoginUnchanged

NextReset ==
    \/ \E typed \in ResetEmails : ForgotPasswordLink(typed)
    \/ BackToLogin
    \/ \E typed \in ResetEmails : TypeEmailReset(typed)
    \/ \E outcome \in ResetOutcomes : ResetBtnClick(outcome)
    \/ ResetTimerFires

SpecReset == Init /\ [][NextReset]_vars

\* C30: a click on reset-btn leaves the same page whether the email was
\* sent (the account exists) or the provider answered auth/user-not-found:
\* the same message, the same elements shown, the input cleared and the
\* return to the login form armed.
ResetDoesNotRevealAccount ==
    [][ \A outcome \in {"sent", "auth/user-not-found"} :
           ResetBtnClick(outcome) =>
              /\ loginView' = resetView(loginView, "sent")
              /\ loginView' = resetView(loginView, "auth/user-not-found")
      ]_vars

====
